---- MODULE Spec2Model ----
(***************************************************************************)
(* A model of alhambra_mixes: the quantity arithmetic, the actions, and    *)
(* Mix.total_volume / buffer_volume / mixlines / validate.                 *)
(*                                                                         *)
(* Magnitudes are exact rationals n/d.  Volumes are counted in nL,         *)
(* concentrations in nM.  The undefined quantity (Decimal NaN) is the      *)
(* record with nan = TRUE.  An operation that raises is modelled by a      *)
(* predicate <name>_raises next to the operator that gives its value.      *)
(***************************************************************************)
EXTENDS Integers, Sequences, FiniteSets, TLC

VARIABLES mix, pc, args, result

vars == <<mix, pc, args, result>>

(***************************************************************************)
(* Bounds of the model.                                                    *)
(***************************************************************************)
MaxActions == 2

MaxComps == 2

MaxRows == 2

(***************************************************************************)
(* Program constants (nL).                                                 *)
(***************************************************************************)
DEFAULT_MIN_VOLUME == 500

DEFAULT_DROPLET_VOL == 25

(***************************************************************************)
(* Quantity arithmetic (units.py: Q_, DNAN, ZERO_VOL, _ratio; Decimal).    *)
(***************************************************************************)
Abs(x) == IF x < 0 THEN -x ELSE x

RECURSIVE GCD(_, _)
GCD(a, b) == IF b = 0 THEN a ELSE GCD(b, a % b)

Sign(d) == IF d < 0 THEN -1 ELSE 1

Reduced(n, d, g) ==
    [nan |-> FALSE, n |-> Sign(d) * (n \div g), d |-> Sign(d) * (d \div g)]

Qty(n, d) == Reduced(n, d, GCD(Abs(n), Abs(d)))

DNAN == [nan |-> TRUE, n |-> 0, d |-> 1]

ZERO_VOL == Qty(0, 1)

isnan(q) == q.nan

\* Arithmetic on an undefined operand yields undefined.
QAdd(a, b) == IF a.nan \/ b.nan THEN DNAN ELSE Qty(a.n * b.d + b.n * a.d, a.d * b.d)

QSub(a, b) == IF a.nan \/ b.nan THEN DNAN ELSE Qty(a.n * b.d - b.n * a.d, a.d * b.d)

QMul(a, b) == IF a.nan \/ b.nan THEN DNAN ELSE Qty(a.n * b.n, a.d * b.d)

\* The divisor is never zero on the inputs of this model.
QDiv(a, b) == IF a.nan \/ b.nan THEN DNAN ELSE Qty(a.n * b.d, a.d * b.n)

\* Every comparison with an undefined operand is false, except "!=".
QLt(a, b) == ~a.nan /\ ~b.nan /\ a.n * b.d < b.n * a.d

QGt(a, b) == QLt(b, a)

QEq(a, b) == ~a.nan /\ ~b.nan /\ a.n * b.d = b.n * a.d

QNe(a, b) == ~QEq(a, b)

QGe(a, b) == QGt(a, b) \/ QEq(a, b)

\* Python's round() of a Decimal: to the nearest integer, ties to even.
\* (round of NaN raises; see the _raises predicates.)
RoundFrom(fl, r2, d) ==
    IF r2 < d THEN fl
    ELSE IF r2 > d THEN fl + 1
    ELSE IF fl % 2 = 0 THEN fl ELSE fl + 1

Round(q) == RoundFrom(q.n \div q.d, 2 * (q.n - (q.n \div q.d) * q.d), q.d)

RECURSIVE QSum(_, _)
\* sum(seq, start)
QSum(seq, start) ==
    IF seq = <<>> THEN start ELSE QSum(Tail(seq), QAdd(start, Head(seq)))

RECURSIVE Flatten(_)
Flatten(ss) == IF ss = <<>> THEN <<>> ELSE Head(ss) \o Flatten(Tail(ss))

\* max(seq) and min(seq): the first element that no later element beats.
RECURSIVE PyMaxFrom(_, _)
PyMaxFrom(seq, best) ==
    IF seq = <<>> THEN best
    ELSE PyMaxFrom(Tail(seq), IF QGt(Head(seq), best) THEN Head(seq) ELSE best)

PyMax(seq) == PyMaxFrom(Tail(seq), Head(seq))

RECURSIVE PyMinFrom(_, _)
PyMinFrom(seq, best) ==
    IF seq = <<>> THEN best
    ELSE PyMinFrom(Tail(seq), IF QLt(Head(seq), best) THEN Head(seq) ELSE best)

PyMin(seq) == PyMinFrom(Tail(seq), Head(seq))

(***************************************************************************)
(* Components and mixes.  A Mix is a component too; both kinds are records *)
(* of one shape, a leaf Component leaving the Mix fields at their defaults.*)
(***************************************************************************)
NoneConc == [kind |-> "None", q |-> DNAN, name |-> ""]

QuantityConc(q) == [kind |-> "Quantity", q |-> q, name |-> ""]

\* fixed_concentration given as the name of a component of the mix.
NameConc(name) == [kind |-> "Name", q |-> DNAN, name |-> name]

Component(name, conc) ==
    [is_mix |-> FALSE, name |-> name, concentration |-> conc,
     actions |-> <<>>, fixed_total_volume |-> DNAN,
     fixed_concentration |-> NoneConc, buffer_name |-> "Buffer",
     min_volume |-> Qty(DEFAULT_MIN_VOLUME, 1)]

Mix(actions, name, fixed_total_volume, fixed_concentration, buffer_name) ==
    [is_mix |-> TRUE, name |-> name, concentration |-> DNAN,
     actions |-> actions, fixed_total_volume |-> fixed_total_volume,
     fixed_concentration |-> fixed_concentration, buffer_name |-> buffer_name,
     min_volume |-> Qty(DEFAULT_MIN_VOLUME, 1)]

(***************************************************************************)
(* Actions.                                                                *)
(***************************************************************************)
FixedVolume(components, fixed_volume) ==
    [kind |-> "FixedVolume", components |-> components,
     fixed_volume |-> fixed_volume, fixed_concentration |-> DNAN,
     target_concentration |-> DNAN, target_total_volume |-> DNAN,
     method |-> "", droplet_volume |-> DNAN]

FixedConcentration(components, fixed_concentration) ==
    [kind |-> "FixedConcentration", components |-> components,
     fixed_volume |-> DNAN, fixed_concentration |-> fixed_concentration,
     target_concentration |-> DNAN, target_total_volume |-> DNAN,
     method |-> "", droplet_volume |-> DNAN]

EchoEqualTargetConcentration(components, fixed_volume, method) ==
    [kind |-> "EchoEqualTargetConcentration", components |-> components,
     fixed_volume |-> fixed_volume, fixed_concentration |-> DNAN,
     target_concentration |-> DNAN, target_total_volume |-> DNAN,
     method |-> method, droplet_volume |-> Qty(DEFAULT_DROPLET_VOL, 1)]

EchoFixedVolume(components, fixed_volume) ==
    [kind |-> "EchoFixedVolume", components |-> components,
     fixed_volume |-> fixed_volume, fixed_concentration |-> DNAN,
     target_concentration |-> DNAN, target_total_volume |-> DNAN,
     method |-> "", droplet_volume |-> Qty(DEFAULT_DROPLET_VOL, 1)]

EchoTargetConcentration(components, target_concentration) ==
    [kind |-> "EchoTargetConcentration", components |-> components,
     fixed_volume |-> DNAN, fixed_concentration |-> DNAN,
     target_concentration |-> target_concentration, target_total_volume |-> DNAN,
     method |-> "", droplet_volume |-> Qty(DEFAULT_DROPLET_VOL, 1)]

\* target_total_volume: the undefined volume when none is given.
EchoFillToVolume(components, target_total_volume) ==
    [kind |-> "EchoFillToVolume", components |-> components,
     fixed_volume |-> DNAN, fixed_concentration |-> DNAN,
     target_concentration |-> DNAN, target_total_volume |-> target_total_volume,
     method |-> "", droplet_volume |-> Qty(DEFAULT_DROPLET_VOL, 1)]

RECURSIVE concentration(_)

RECURSIVE all_components(_)

source_concentrations(a) ==
    [i \in 1..Len(a.components) |-> concentration(a.components[i])]

\* _ratio(top, bottoms): top / y for each y
ratio_over(top, bottoms) == [i \in 1..Len(bottoms) |-> QDiv(top, bottoms[i])]

\* EchoEqualTargetConcentration: the number of droplets before rounding,
\* fixed_volume * x / droplet_volume for x in _ratio(ref, sc).
EqualTargetDroplets(a, sc, ref) ==
    [i \in 1..Len(sc) |->
        QDiv(QMul(a.fixed_volume, QDiv(ref, sc[i])), a.droplet_volume)]

AnyNan(qs) == \E i \in 1..Len(qs) : isnan(qs[i])

\* each_volumes raises: round() of an undefined number of droplets, the
\* "check" method on differing concentrations, an unknown method.
\* Mutant: "check" lets concentrations within 1 nM of the first pass.
EachVolumesRaises_tolerant(a, sc) ==
    IF a.kind = "EchoEqualTargetConcentration"
    THEN CASE a.method = "min_volume" -> AnyNan(EqualTargetDroplets(a, sc, PyMax(sc)))
           [] a.method \in {"max_volume", "max_fill"} ->
                AnyNan(EqualTargetDroplets(a, sc, PyMin(sc)))
           [] a.method = "check" ->
                \E i \in 1..Len(sc) :
                    \/ isnan(QSub(sc[i], sc[1]))
                    \/ QGt(QSub(sc[i], sc[1]), Qty(1, 1))
                    \/ QLt(QSub(sc[i], sc[1]), Qty(-1, 1))
           [] OTHER -> TRUE
    ELSE FALSE

EachVolumesRaises(a, sc) ==
    IF a.kind = "EchoEqualTargetConcentration"
    THEN CASE a.method = "min_volume" -> AnyNan(EqualTargetDroplets(a, sc, PyMax(sc)))
           [] a.method \in {"max_volume", "max_fill"} ->
                AnyNan(EqualTargetDroplets(a, sc, PyMin(sc)))
           [] a.method = "check" -> \E i \in 1..Len(sc) : QNe(sc[i], sc[1])
           [] OTHER -> TRUE
    ELSE FALSE

RoundedDroplets(a, dr) ==
    [i \in 1..Len(dr) |-> QMul(Qty(Round(dr[i]), 1), a.droplet_volume)]

FixedVolumeEachVolumes(a) == [i \in 1..Len(a.components) |-> a.fixed_volume]

FixedConcentrationEachVolumes(a, mix_vol, sc) ==
    [i \in 1..Len(sc) |-> QMul(mix_vol, QDiv(a.fixed_concentration, sc[i]))]

\* Mutant: min_volume scales by the minimum concentration and max_volume
\* by the maximum.
EchoEqualTargetEachVolumes_swapped(a, sc) ==
    CASE a.method = "min_volume" ->
            RoundedDroplets(a, EqualTargetDroplets(a, sc, PyMin(sc)))
      [] a.method \in {"max_volume", "max_fill"} ->
            RoundedDroplets(a, EqualTargetDroplets(a, sc, PyMax(sc)))
      [] a.method = "check" ->
            [i \in 1..Len(a.components) |-> a.fixed_volume]

\* The method ("max_fill", name) is written "max_fill".
EchoEqualTargetEachVolumes(a, sc) ==
    CASE a.method = "min_volume" ->
            RoundedDroplets(a, EqualTargetDroplets(a, sc, PyMax(sc)))
      [] a.method \in {"max_volume", "max_fill"} ->
            RoundedDroplets(a, EqualTargetDroplets(a, sc, PyMin(sc)))
      [] a.method = "check" ->
            [i \in 1..Len(a.components) |-> a.fixed_volume]

\* EchoTargetConcentration.each_volumes: mix_vol * r rounded to droplets for
\* r in _ratio(target_concentration, sc), undefined where mix_vol or r is.
TargetDroplets(a, mix_vol, r) == QDiv(QMul(mix_vol, r), a.droplet_volume)

\* Mutant: the number of droplets is truncated, not rounded.
EchoTargetEachVolume_truncated(a, dr) ==
    IF isnan(dr) THEN DNAN ELSE QMul(Qty(dr.n \div dr.d, 1), a.droplet_volume)

EchoTargetEachVolume(a, dr) ==
    IF isnan(dr) THEN DNAN ELSE QMul(Qty(Round(dr), 1), a.droplet_volume)

EchoTargetEachVolumes(a, mix_vol, sc) ==
    [i \in 1..Len(sc) |->
        EchoTargetEachVolume(a,
            TargetDroplets(a, mix_vol, QDiv(a.target_concentration, sc[i])))]

\* each_volumes of every action but EchoFillToVolume, which looks at the
\* other actions of the mix.
EachVolumes(a, mix_vol, sc) ==
    CASE a.kind = "FixedVolume" -> FixedVolumeEachVolumes(a)
      [] a.kind = "FixedConcentration" -> FixedConcentrationEachVolumes(a, mix_vol, sc)
      [] a.kind = "EchoEqualTargetConcentration" -> EchoEqualTargetEachVolumes(a, sc)
      [] a.kind = "EchoFixedVolume" -> FixedVolumeEachVolumes(a)
      [] a.kind = "EchoTargetConcentration" -> EchoTargetEachVolumes(a, mix_vol, sc)

\* EchoFillToVolume.each_volumes.  othervol sums a.tx_volume(mix_vol,
\* actions) over the actions that are not this one (an action that stands
\* twice in the list is one object); another fill action among them would
\* ask this one for its volume in turn, without end (RecursionError).
OthersOf(a, actions) == SelectSeq(actions, LAMBDA o : o # a)

OtherRaises(others) ==
    \E j \in 1..Len(others) :
        \/ others[j].kind = "EchoFillToVolume"
        \/ EachVolumesRaises(others[j], source_concentrations(others[j]))

OtherVolume(others, mix_vol) ==
    QSum([j \in 1..Len(others) |->
            QSum(EachVolumes(others[j], mix_vol, source_concentrations(others[j])),
                 ZERO_VOL)],
         ZERO_VOL)

FillDroplets(a, tvol, othervol) == QDiv(QSub(tvol, othervol), a.droplet_volume)

\* Mutant: an explicit target is ignored.
FillTarget_mix_volume_only(a, mix_vol) == mix_vol

FillTarget(a, mix_vol) ==
    IF isnan(a.target_total_volume) THEN mix_vol ELSE a.target_total_volume

\* Mutant: a fill action of several components is not refused.
FillRaisesOn_any_components(a, others_raise, dr) == others_raise \/ isnan(dr)

FillRaisesOn(a, others_raise, dr) ==
    others_raise \/ Len(a.components) > 1 \/ isnan(dr)

FillToVolumeRaises(a, mix_vol, others) ==
    FillRaisesOn(a, OtherRaises(others),
                 IF OtherRaises(others) THEN DNAN
                 ELSE FillDroplets(a, FillTarget(a, mix_vol),
                                   OtherVolume(others, mix_vol)))

FillToVolumeEachVolumes(a, mix_vol, others) ==
    <<QMul(Qty(Round(FillDroplets(a, FillTarget(a, mix_vol),
                                  OtherVolume(others, mix_vol))), 1),
           a.droplet_volume)>>

each_volumes_raises(a, mix_vol, actions) ==
    IF a.kind = "EchoFillToVolume"
    THEN FillToVolumeRaises(a, mix_vol, OthersOf(a, actions))
    ELSE EachVolumesRaises(a, source_concentrations(a))

each_volumes(a, mix_vol, actions) ==
    IF a.kind = "EchoFillToVolume"
    THEN FillToVolumeEachVolumes(a, mix_vol, OthersOf(a, actions))
    ELSE EachVolumes(a, mix_vol, source_concentrations(a))

tx_volume_raises(a, mix_vol, actions) == each_volumes_raises(a, mix_vol, actions)

tx_volume(a, mix_vol, actions) == QSum(each_volumes(a, mix_vol, actions), ZERO_VOL)

DestConcentrations(sc, ev, mix_vol) ==
    [i \in 1..Len(sc) |-> QMul(sc[i], QDiv(ev[i], mix_vol))]

\* dest_concentrations evaluates each_volumes first.
dest_concentrations_raises(a, mix_vol, actions) == each_volumes_raises(a, mix_vol, actions)

dest_concentrations(a, mix_vol, actions) ==
    DestConcentrations(source_concentrations(a), each_volumes(a, mix_vol, actions),
                       mix_vol)

(***************************************************************************)
(* Mix properties.                                                         *)
(***************************************************************************)
has_fixed_total_volume(m) == ~isnan(m.fixed_total_volume)

has_fixed_concentration_action(m) ==
    \E i \in 1..Len(m.actions) : m.actions[i].kind = "FixedConcentration"

AnyActionRaises(m, mix_vol) ==
    \E i \in 1..Len(m.actions) : tx_volume_raises(m.actions[i], mix_vol, m.actions)

\* sum(c.tx_volume(mix_vol, self.actions) for c in self.actions)
SumTxVolumes(m, mix_vol) ==
    QSum([i \in 1..Len(m.actions) |-> tx_volume(m.actions[i], mix_vol, m.actions)],
         ZERO_VOL)

total_volume_raises(m) ==
    ~has_fixed_total_volume(m) /\ AnyActionRaises(m, m.fixed_total_volume)

\* Mutants of total_volume: the actions are summed although a total is
\* fixed; the actions are fed a zero mix volume.
total_volume_always_sums(m) == SumTxVolumes(m, m.fixed_total_volume)

total_volume_zero_feed(m) ==
    IF ~isnan(m.fixed_total_volume)
    THEN m.fixed_total_volume
    ELSE SumTxVolumes(m, ZERO_VOL)

total_volume(m) ==
    IF ~isnan(m.fixed_total_volume)
    THEN m.fixed_total_volume
    ELSE SumTxVolumes(m, m.fixed_total_volume)

\* What an evaluation of the actions at the mix's total volume does.
ActionsRaiseAt(m, tot_vol_raises, tot_vol) ==
    tot_vol_raises \/ AnyActionRaises(m, tot_vol)

\* Mutant of buffer_volume: never below zero.
BufferVolumeAt_clamped(m, tot_vol) ==
    IF QLt(QSub(tot_vol, SumTxVolumes(m, tot_vol)), ZERO_VOL) THEN ZERO_VOL
    ELSE QSub(tot_vol, SumTxVolumes(m, tot_vol))

BufferVolumeAt(m, tot_vol) == QSub(tot_vol, SumTxVolumes(m, tot_vol))

buffer_volume_raises(m) == ActionsRaiseAt(m, total_volume_raises(m), total_volume(m))

buffer_volume(m) == BufferVolumeAt(m, total_volume(m))

\* The inputs of this model hold no mix whose fixed_concentration is a
\* string; that branch (all_components) has no case here.
\* The rows of a components table: a name and a concentration in nM.
Row(name, concentration_nM) == [name |-> name, concentration_nM |-> concentration_nM]

HasName(rows, name) == \E i \in 1..Len(rows) : rows[i].name = name

\* rows.loc[name, "concentration_nM"]
Lookup(rows, name) ==
    rows[CHOOSE i \in 1..Len(rows) : rows[i].name = name].concentration_nM

\* Mutant: a name given as fixed_concentration is not looked up.
concentration_unnamed(c) ==
    IF ~c.is_mix THEN c.concentration
    ELSE IF c.fixed_concentration.kind = "Quantity" THEN c.fixed_concentration.q
    ELSE dest_concentrations(c.actions[1], total_volume(c), c.actions)[1]

concentration(c) ==
    IF ~c.is_mix THEN c.concentration
    ELSE CASE c.fixed_concentration.kind = "Quantity" -> c.fixed_concentration.q
           [] c.fixed_concentration.kind = "Name" ->
                Lookup(all_components(c), c.fixed_concentration.name)
           [] c.fixed_concentration.kind = "None" ->
                dest_concentrations(c.actions[1], total_volume(c), c.actions)[1]

\* Component.all_components: the one row of a leaf component; the table of
\* a mix used as a component.
ComponentAllComponents(c) ==
    IF c.is_mix THEN all_components(c) ELSE <<Row(c.name, c.concentration)>>

ScaleRows(rows, r) ==
    [i \in 1..Len(rows) |-> Row(rows[i].name, QMul(rows[i].concentration_nM, r))]

\* cps.align(mcomp): the rows of cps, then a row without a value for every
\* name that only mcomp has.
Align(cps, mcomp) ==
    cps \o [i \in 1..Len(SelectSeq(mcomp, LAMBDA r : ~HasName(cps, r.name))) |->
              Row(SelectSeq(mcomp, LAMBDA r : ~HasName(cps, r.name))[i].name, DNAN)]

\* The rows of an action are summed by name: a name that recurs among the
\* action's components keeps one row.
SumRows(newdf, comps) ==
    [i \in 1..Len(newdf) |->
        IF HasName(comps, newdf[i].name)
        THEN Row(newdf[i].name,
                 QAdd(newdf[i].concentration_nM, Lookup(comps, newdf[i].name)))
        ELSE newdf[i]]
    \o SelectSeq(comps, LAMBDA r : ~HasName(newdf, r.name))

RECURSIVE ActionRowsFrom(_, _, _, _)
ActionRowsFrom(a, dc, k, newdf) ==
    IF k > Len(a.components) THEN newdf
    ELSE ActionRowsFrom(a, dc, k + 1,
            SumRows(newdf, ScaleRows(ComponentAllComponents(a.components[k]),
                                     QDiv(dc[k], concentration(a.components[k])))))

\* action.all_components(mix_vol, actions)
action_all_components(a, mix_vol, actions) ==
    ActionRowsFrom(a, dest_concentrations(a, mix_vol, actions), 1, <<>>)

\* cps.loc[:, "concentration_nM"].fillna(Decimal("0.0"), inplace=True): every
\* value pandas takes as missing, Decimal NaN among them, becomes 0.
FillNa(cps) ==
    [i \in 1..Len(cps) |->
        Row(cps[i].name,
            IF isnan(cps[i].concentration_nM) THEN Qty(0, 1)
            ELSE cps[i].concentration_nM)]

\* cps.loc[mcomp.index, "concentration_nM"] += mcomp.concentration_nM
AddAt(cps, mcomp) ==
    [i \in 1..Len(cps) |->
        IF HasName(mcomp, cps[i].name)
        THEN Row(cps[i].name, QAdd(cps[i].concentration_nM, Lookup(mcomp, cps[i].name)))
        ELSE cps[i]]

RECURSIVE AllComponentsFrom(_, _, _, _)
AllComponentsFrom(m, tot_vol, i, cps) ==
    IF i > Len(m.actions) THEN cps
    ELSE AllComponentsFrom(m, tot_vol, i + 1,
            AddAt(FillNa(Align(cps, action_all_components(m.actions[i], tot_vol, m.actions))),
                  action_all_components(m.actions[i], tot_vol, m.actions)))

all_components(m) == AllComponentsFrom(m, total_volume(m), 1, <<>>)

all_components_raises(m) ==
    ActionsRaiseAt(m, total_volume_raises(m), total_volume(m))

concentration_raises(m) ==
    CASE m.fixed_concentration.kind = "Quantity" -> FALSE
      [] m.fixed_concentration.kind = "Name" ->
            \/ all_components_raises(m)
            \/ ~HasName(all_components(m), m.fixed_concentration.name)
      [] m.fixed_concentration.kind = "None" ->
            \/ total_volume_raises(m)
            \/ dest_concentrations_raises(m.actions[1], total_volume(m), m.actions)

(***************************************************************************)
(* Mix lines (printing.MixLine) and Mix.mixlines.                          *)
(***************************************************************************)
\* MixLine(names, source_conc, dest_conc, total_tx_vol, each_tx_vol=...):
\* an each_tx_vol that is not given is the total when the line stands for
\* one transfer.  The concentrations of a line take no part in validation
\* and are left out of the record.
MixLine(names, total_tx_vol, each_tx_vol) ==
    [names |-> names, total_tx_vol |-> total_tx_vol, total_none |-> FALSE,
     number |-> 1,
     each_tx_vol |-> IF isnan(each_tx_vol) THEN total_tx_vol ELSE each_tx_vol]

\* FixedVolume._mixlines / FixedConcentration._mixlines: one line for each
\* component.
PlainMixlines(a, ev) ==
    [i \in 1..Len(a.components) |-> MixLine(<<a.components[i].name>>, ev[i], DNAN)]

\* The Echo actions group their components by (source concentration,
\* destination concentration, volume), in order of first appearance.  The
\* destination concentration is a function of the other two and mix_vol.
\* The names of a group are joined into one string in the code; the model
\* keeps them as the sequence of the joined names.
SameGroup(sc, ev, i, j) == sc[i] = sc[j] /\ ev[i] = ev[j]

GroupLeaders(sc, ev) ==
    SelectSeq([i \in 1..Len(sc) |-> i],
              LAMBDA i : \A j \in 1..(i - 1) : ~SameGroup(sc, ev, i, j))

GroupMembers(sc, ev, i) ==
    SelectSeq([j \in 1..Len(sc) |-> j], LAMBDA j : SameGroup(sc, ev, i, j))

GroupLine(a, ev, i, ms) ==
    MixLine([k \in 1..Len(ms) |-> a.components[ms[k]].name],
            QMul(Qty(Len(ms), 1), ev[i]), ev[i])

GroupedMixlines(a, sc, ev, leaders) ==
    [k \in 1..Len(leaders) |->
        GroupLine(a, ev, leaders[k], GroupMembers(sc, ev, leaders[k]))]

EchoMixlines(a, sc, ev) == GroupedMixlines(a, sc, ev, GroupLeaders(sc, ev))

ActionMixlines(a, sc, ev) ==
    IF a.kind \in {"FixedVolume", "FixedConcentration"}
    THEN PlainMixlines(a, ev)
    ELSE EchoMixlines(a, sc, ev)

action_mixlines(a, mix_vol, actions) ==
    ActionMixlines(a, source_concentrations(a), each_volumes(a, mix_vol, actions))

mixlines_raises(m) == buffer_volume_raises(m)

\* Mutant: the buffer line is named after the mix's own buffer_name.
MixlinesAt_own_buffer_name(m, buffer_name, tot_vol) ==
    Flatten([i \in 1..Len(m.actions) |->
                action_mixlines(m.actions[i], tot_vol, m.actions)])
    \o (IF has_fixed_total_volume(m)
        THEN <<MixLine(<<m.buffer_name>>, BufferVolumeAt(m, tot_vol), DNAN)>>
        ELSE <<>>)

MixlinesAt(m, buffer_name, tot_vol) ==
    Flatten([i \in 1..Len(m.actions) |->
                action_mixlines(m.actions[i], tot_vol, m.actions)])
    \o (IF has_fixed_total_volume(m)
        THEN <<MixLine(<<buffer_name>>, BufferVolumeAt(m, tot_vol), DNAN)>>
        ELSE <<>>)

mixlines(m, buffer_name) == MixlinesAt(m, buffer_name, total_volume(m))

(***************************************************************************)
(* Mix.validate.  A finding is a record of its category and the names it   *)
(* cites.                                                                  *)
(***************************************************************************)
VolumeError(category, names) == [category |-> category, names |-> names]

\* ntx: the lines that have a total transfer volume
Ntx(lines) == SelectSeq(lines, LAMBDA l : ~l.total_none)

NamesOf(lines) == Flatten([i \in 1..Len(lines) |-> lines[i].names])

ErrorIfAny(lines, category) ==
    IF lines # <<>> THEN <<VolumeError(category, NamesOf(lines))>> ELSE <<>>

\* Mutant: reported only when every action is a fixed-concentration one.
FixedConcentrationErrors_all(m) ==
    IF /\ ~has_fixed_total_volume(m)
       /\ \A i \in 1..Len(m.actions) : m.actions[i].kind = "FixedConcentration"
    THEN <<VolumeError("fixed_total_volume must be specified", <<>>)>>
    ELSE <<>>

FixedConcentrationErrors(m) ==
    IF ~has_fixed_total_volume(m) /\ has_fixed_concentration_action(m)
    THEN <<VolumeError("fixed_total_volume must be specified", <<>>)>>
    ELSE <<>>

NanVolErrors(ntx) ==
    ErrorIfAny(SelectSeq(ntx, LAMBDA l : isnan(l.total_tx_vol)), "volumes not defined")

HighVolErrors(ntx, tot_vol) ==
    ErrorIfAny(SelectSeq(ntx, LAMBDA l : QGt(l.total_tx_vol, tot_vol)),
               "higher than total")

\* Mutant: a volume equal to min_volume is reported too.
MinVolumeError_inclusive(m, mixline) ==
    IF /\ ~isnan(mixline.each_tx_vol)
       /\ QNe(mixline.each_tx_vol, ZERO_VOL)
       /\ ~QGt(mixline.each_tx_vol, m.min_volume)
    THEN IF mixline.names = <<m.buffer_name>>
         THEN <<VolumeError("negative buffer volume", <<m.name>>)>>
         ELSE <<VolumeError("lower than min_volume", mixline.names)>>
    ELSE <<>>

MinVolumeError(m, mixline) ==
    IF /\ ~isnan(mixline.each_tx_vol)
       /\ QNe(mixline.each_tx_vol, ZERO_VOL)
       /\ QLt(mixline.each_tx_vol, m.min_volume)
    THEN IF mixline.names = <<m.buffer_name>>
         THEN <<VolumeError("negative buffer volume", <<m.name>>)>>
         ELSE <<VolumeError("lower than min_volume", mixline.names)>>
    ELSE <<>>

MinVolumeErrors(m, lines) ==
    Flatten([i \in 1..Len(lines) |-> MinVolumeError(m, lines[i])])

LastNegativeErrors(ntx) ==
    IF QLt(ntx[Len(ntx)].total_tx_vol, ZERO_VOL)
    THEN <<VolumeError("last component negative", ntx[Len(ntx)].names)>>
    ELSE <<>>

NegVolErrors(ntx) ==
    ErrorIfAny(SelectSeq(ntx, LAMBDA l : QLt(l.total_tx_vol, ZERO_VOL)),
               "negative volumes")

IntermediateError(m, component, volume) ==
    IF component.is_mix /\ QLt(component.fixed_total_volume, volume)
    THEN <<VolumeError("intermediate mix", <<component.name, m.name>>)>>
    ELSE <<>>

ActionIntermediateErrors(m, a, ev) ==
    Flatten([k \in 1..Len(a.components) |->
                IntermediateError(m, a.components[k], ev[k])])

IntermediateErrors(m, tot_vol) ==
    Flatten([i \in 1..Len(m.actions) |->
        ActionIntermediateErrors(m, m.actions[i],
                                 each_volumes(m.actions[i], tot_vol, m.actions))])

\* Mutant: validate stops at its first finding.
ValidateLines_first_only(m, lines, ntx, tot_vol) ==
    SubSeq(FixedConcentrationErrors(m)
           \o NanVolErrors(ntx)
           \o HighVolErrors(ntx, tot_vol)
           \o MinVolumeErrors(m, lines)
           \o LastNegativeErrors(ntx)
           \o NegVolErrors(ntx)
           \o IntermediateErrors(m, tot_vol), 1, 1)

ValidateLines(m, lines, ntx, tot_vol) ==
    FixedConcentrationErrors(m)
    \o NanVolErrors(ntx)
    \o HighVolErrors(ntx, tot_vol)
    \o MinVolumeErrors(m, lines)
    \o LastNegativeErrors(ntx)
    \o NegVolErrors(ntx)
    \o IntermediateErrors(m, tot_vol)

\* validate(tablefmt="pipe"): the lines are self.mixlines(tablefmt), whose
\* buffer_name parameter keeps its default.  ntx[-1] raises on an empty ntx.
ValidateRaisesOn(lines_raise, ntx) == lines_raise \/ ntx = <<>>

validate_raises(m) ==
    mixlines_raises(m) \/ ValidateRaisesOn(FALSE, Ntx(mixlines(m, "Buffer")))

ValidateOn(m, lines, tot_vol) == ValidateLines(m, lines, Ntx(lines), tot_vol)

validate(m) == ValidateOn(m, mixlines(m, "Buffer"), total_volume(m))

(***************************************************************************)
(* The inputs: components, nested mixes, actions and mixes.                *)
(***************************************************************************)
CompA == Component("a", Qty(100, 1))

CompB == Component("b", Qty(200, 1))

CompU == Component("u", DNAN)

\* Nested mixes: with a fixed total volume too small or large enough for a
\* draw of 5 uL, and with a total volume derived from its actions.
MixSmall ==
    Mix(<<FixedVolume(<<CompA>>, Qty(1000, 1))>>, "small", Qty(2000, 1),
        QuantityConc(Qty(100, 1)), "Buffer")

MixDerived ==
    Mix(<<FixedVolume(<<CompA>>, Qty(1000, 1))>>, "derived", DNAN, NoneConc, "Buffer")

MixLarge ==
    Mix(<<FixedVolume(<<CompA>>, Qty(1000, 1))>>, "large", Qty(8000, 1),
        NoneConc, "Buffer")

LeafPool == <<CompA, CompB, CompU>>

\* Component lists: the runs of at most MaxComps consecutive pool members.
Windows(pool) ==
    {SubSeq(pool, i, j) : <<i, j>> \in
        {w \in (1..Len(pool)) \X (1..Len(pool)) :
            w[1] <= w[2] /\ w[2] - w[1] + 1 <= MaxComps}}

ActionInputs ==
    {FixedVolume(cs, Qty(5000, 1)) : cs \in Windows(LeafPool)}
    \cup {FixedVolume(<<CompB>>, Qty(10000, 1))}
    \cup {FixedVolume(<<CompA>>, Qty(v, 1)) : v \in {250, -1000}}
    \cup {FixedVolume(<<n>>, Qty(5000, 1)) : n \in {MixSmall, MixDerived, MixLarge}}
    \cup {FixedConcentration(<<c>>, Qty(50, 1)) : c \in {CompA, CompU, MixSmall}}
    \cup {EchoEqualTargetConcentration(SubSeq(<<CompA, CompB>>, 1, n), Qty(5000, 1), me) :
            n \in 1..2, me \in {"check", "min_volume"}}

ActionLists ==
    UNION {[1..n -> ActionInputs] : n \in 1..MaxActions}

VolumeInputs == {DNAN, Qty(5500, 1), Qty(12000, 1), Qty(15000, 1), Qty(20000, 1)}

PolicyInputs ==
    {<<v, "Buffer">> : v \in VolumeInputs}
    \cup {<<Qty(12000, 1), "TE">>}

MixInputs ==
    {Mix(as, "m", p[1], NoneConc, p[2]) : as \in ActionLists, p \in PolicyInputs}

(***************************************************************************)
(* The state machine: a constructed mix, the last property or method       *)
(* evaluated on it (pc) with its arguments (args), and what it did.        *)
(***************************************************************************)
Returned(v) == [raised |-> FALSE, value |-> v]

Raised == [raised |-> TRUE, value |-> <<>>]

Init ==
    /\ mix \in MixInputs
    /\ pc = "init"
    /\ args = <<>>
    /\ result = Returned(<<>>)

TotalVolume ==
    /\ pc' = "total_volume"
    /\ args' = <<>>
    /\ result' = IF total_volume_raises(mix) THEN Raised
                 ELSE Returned(total_volume(mix))
    /\ UNCHANGED mix

BufferVolume ==
    /\ pc' = "buffer_volume"
    /\ args' = <<>>
    /\ result' = IF buffer_volume_raises(mix) THEN Raised
                 ELSE Returned(buffer_volume(mix))
    /\ UNCHANGED mix

\* validate(tablefmt=tablefmt, mixlines=None): without a tablefmt it raises
\* ValueError before anything is computed.
Validate(tablefmt) ==
    /\ pc' = "validate"
    /\ args' = <<tablefmt>>
    /\ result' = IF tablefmt = "None" \/ validate_raises(mix) THEN Raised
                 ELSE Returned(validate(mix))
    /\ UNCHANGED mix

Next ==
    \/ TotalVolume
    \/ BufferVolume
    \/ \E tablefmt \in {"None", "pipe"} : Validate(tablefmt)

Spec == Init /\ [][Next]_vars

(***************************************************************************)
(* Actions called on their own: each_volumes(mix_vol, actions) and         *)
(* dest_concentrations(mix_vol, actions) of one action of a list, for a    *)
(* mix volume the caller passes.                                           *)
(***************************************************************************)
CompA2 == Component("a2", Qty(100, 1))

CompA3 == Component("a3", Qty(100001, 1000))

EchoActionInputs ==
    {EchoFixedVolume(cs, Qty(v, 1)) : cs \in {<<CompA>>, <<CompA, CompB>>}, v \in {5000, 30}}
    \cup {EchoEqualTargetConcentration(cs, Qty(5000, 1), "check") :
            cs \in {<<CompA, CompA2>>, <<CompA, CompA3>>, <<CompU>>}}
    \cup {EchoEqualTargetConcentration(<<CompA, CompA2>>, Qty(30, 1), "check")}
    \cup {EchoEqualTargetConcentration(<<CompA, CompB>>, Qty(5000, 1), me) :
            me \in {"min_volume", "max_volume", "equal"}}
    \cup {EchoEqualTargetConcentration(<<CompA, CompU>>, Qty(5000, 1), "min_volume")}
    \cup {EchoTargetConcentration(cs, t) :
            cs \in {<<CompA>>, <<CompB, CompU>>}, t \in {Qty(50, 1), Qty(1, 10)}}
    \cup {EchoFillToVolume(<<CompB>>, t) : t \in {DNAN, Qty(10000, 1), Qty(10010, 1)}}
    \cup {EchoFillToVolume(<<CompA, CompB>>, DNAN)}
    \cup {FixedConcentration(<<CompA>>, Qty(50, 1)), FixedVolume(<<CompA>>, Qty(5000, 1))}

EchoActionLists == UNION {[1..n -> EchoActionInputs] : n \in 1..MaxActions}

MixVolInputs == {DNAN, Qty(20000, 1)}

InitActions ==
    /\ mix \in {Mix(as, "m", DNAN, NoneConc, "Buffer") : as \in EchoActionLists}
    /\ pc = "init"
    /\ args = <<>>
    /\ result = Returned(<<>>)

CallEachVolumes(i, mix_vol) ==
    /\ i \in 1..Len(mix.actions)
    /\ pc' = "each_volumes"
    /\ args' = <<i, mix_vol>>
    /\ result' = IF each_volumes_raises(mix.actions[i], mix_vol, mix.actions)
                 THEN Raised
                 ELSE Returned(each_volumes(mix.actions[i], mix_vol, mix.actions))
    /\ UNCHANGED mix

CallDestConcentrations(i, mix_vol) ==
    /\ i \in 1..Len(mix.actions)
    /\ pc' = "dest_concentrations"
    /\ args' = <<i, mix_vol>>
    /\ result' = IF dest_concentrations_raises(mix.actions[i], mix_vol, mix.actions)
                 THEN Raised
                 ELSE Returned(dest_concentrations(mix.actions[i], mix_vol, mix.actions))
    /\ UNCHANGED mix

NextActions ==
    \/ \E i \in 1..MaxActions, mix_vol \in MixVolInputs : CallEachVolumes(i, mix_vol)
    \/ \E i \in 1..MaxActions, mix_vol \in MixVolInputs : CallDestConcentrations(i, mix_vol)

ActionSpec == InitActions /\ [][NextActions]_vars

(***************************************************************************)
(* Properties.                                                             *)
(***************************************************************************)
\* Every per-component transfer volume of the mix, in order, with the
\* actions evaluated at mix_vol.
ComponentVolumes(m, mix_vol) ==
    Flatten([i \in 1..Len(m.actions) |->
                each_volumes(m.actions[i], mix_vol, m.actions)])

SomeVolumeRaises(m, mix_vol) ==
    \E i \in 1..Len(m.actions) : each_volumes_raises(m.actions[i], mix_vol, m.actions)

OnlyFixedVolumeActions(m) ==
    \A i \in 1..Len(m.actions) : m.actions[i].kind = "FixedVolume"

\* C1: a mix with a defined fixed_total_volume has exactly that total
\* volume, whatever its actions are.
C1_FixedTotalVolume ==
    (pc = "total_volume" /\ ~isnan(mix.fixed_total_volume))
        => result = Returned(mix.fixed_total_volume)

\* C1 happens: the total volume of a fixed 12 uL mix was read although its
\* actions hold a negative or an undefined volume, or exceed 12 uL together.
C1_Witness ==
    /\ pc = "total_volume"
    /\ mix.fixed_total_volume = Qty(12000, 1)
    /\ ~SomeVolumeRaises(mix, mix.fixed_total_volume)
    /\ \E i \in 1..Len(ComponentVolumes(mix, mix.fixed_total_volume)) :
          \/ isnan(ComponentVolumes(mix, mix.fixed_total_volume)[i])
          \/ QLt(ComponentVolumes(mix, mix.fixed_total_volume)[i], ZERO_VOL)
          \/ QGt(QSum(ComponentVolumes(mix, mix.fixed_total_volume), ZERO_VOL),
                 mix.fixed_total_volume)
    /\ result.value = Qty(12000, 1)

\* C2: without a fixed total volume, total_volume is the sum of every
\* action's per-component volumes computed with an undefined mix volume
\* (and raises just when such a computation raises); so a mix of
\* fixed-volume actions alone has a zero buffer volume.
C2_DerivedTotalVolume ==
    /\ (pc = "total_volume" /\ isnan(mix.fixed_total_volume))
        => IF SomeVolumeRaises(mix, DNAN) THEN result.raised
           ELSE result = Returned(QSum(ComponentVolumes(mix, DNAN), ZERO_VOL))
    /\ (pc = "buffer_volume" /\ isnan(mix.fixed_total_volume)
            /\ OnlyFixedVolumeActions(mix))
        => result = Returned(ZERO_VOL)

\* C2 happens: a derived total volume of 5 uL + 10 uL was computed.
C2_Witness ==
    /\ pc = "total_volume"
    /\ isnan(mix.fixed_total_volume)
    /\ Len(mix.actions) = 2
    /\ OnlyFixedVolumeActions(mix)
    /\ result = Returned(Qty(15000, 1))

\* C3: buffer_volume is total_volume minus the sum of the actions' volumes
\* at total_volume, and is returned, negative, when that sum is larger.
C3_BufferVolume ==
    (pc = "buffer_volume" /\ ~total_volume_raises(mix)
        /\ ~SomeVolumeRaises(mix, total_volume(mix)))
        => /\ result = Returned(QSub(total_volume(mix),
                         QSum(ComponentVolumes(mix, total_volume(mix)), ZERO_VOL)))
           /\ QGt(QSum(ComponentVolumes(mix, total_volume(mix)), ZERO_VOL),
                  total_volume(mix))
                => QLt(result.value, ZERO_VOL)

\* C3 happens: 5 uL + 10 uL in a fixed 12 uL gave a buffer volume of -3 uL.
C3_Witness ==
    /\ pc = "buffer_volume"
    /\ mix.fixed_total_volume = Qty(12000, 1)
    /\ QSum(ComponentVolumes(mix, mix.fixed_total_volume), ZERO_VOL) = Qty(15000, 1)
    /\ result = Returned(Qty(-3000, 1))

\* What the following properties say about validate concerns the calls
\* that were given a table format and returned their list.
ValidateReturned == pc = "validate" /\ args = <<"pipe">> /\ ~result.raised

Findings == {result.value[i] : i \in 1..Len(result.value)}

Categories == {result.value[i].category : i \in 1..Len(result.value)}

ComponentsOf(m) == Flatten([i \in 1..Len(m.actions) |-> m.actions[i].components])

VolumesAtTotal(m) == ComponentVolumes(m, total_volume(m))

BelowMin(m, v) == ~isnan(v) /\ QNe(v, ZERO_VOL) /\ QLt(v, m.min_volume)

NestedTooSmall(m) ==
    \E k \in 1..Len(ComponentsOf(m)) :
        /\ ComponentsOf(m)[k].is_mix
        /\ QLt(ComponentsOf(m)[k].fixed_total_volume, VolumesAtTotal(m)[k])

HasFixedConcentrationAction(m) ==
    \E i \in 1..Len(m.actions) : m.actions[i].kind = "FixedConcentration"

\* The fault categories of a mix, told from its components' volumes alone.
FaultCategories(m) ==
    (IF isnan(m.fixed_total_volume) /\ HasFixedConcentrationAction(m)
     THEN {"fixed_total_volume must be specified"} ELSE {})
    \cup (IF \E k \in 1..Len(VolumesAtTotal(m)) : isnan(VolumesAtTotal(m)[k])
          THEN {"volumes not defined"} ELSE {})
    \cup (IF \E k \in 1..Len(VolumesAtTotal(m)) : BelowMin(m, VolumesAtTotal(m)[k])
          THEN {"lower than min_volume"} ELSE {})
    \cup (IF \E k \in 1..Len(VolumesAtTotal(m)) : QLt(VolumesAtTotal(m)[k], ZERO_VOL)
          THEN {"negative volumes"} ELSE {})
    \cup (IF NestedTooSmall(m) THEN {"intermediate mix"} ELSE {})

\* C4: validate, given a table format, never raises, whatever the mix.
C4_ValidateNeverRaises ==
    (pc = "validate" /\ args = <<"pipe">>) => ~result.raised

\* C5: validate accumulates: the list it returns holds a finding of every
\* fault category the mix has, so at least as many findings as categories.
C5_Accumulates ==
    ValidateReturned
        => /\ FaultCategories(mix) \subseteq Categories
           /\ Len(result.value) >= Cardinality(FaultCategories(mix))

\* C5 happens: a mix with a transfer below min_volume and a nested mix too
\* small for what is drawn from it was validated.
C5_Witness ==
    /\ ValidateReturned
    /\ {"lower than min_volume", "intermediate mix"} \subseteq FaultCategories(mix)
    /\ {"lower than min_volume", "intermediate mix"} \subseteq Categories
    /\ Len(result.value) >= 2

\* Fixed-volume actions of one component apiece, each volume valid on its
\* own (at least min_volume, at most the total, a nested mix large enough)
\* but more together than the fixed total volume.
C6_Overfull(m) ==
    /\ OnlyFixedVolumeActions(m)
    /\ \A i \in 1..Len(m.actions) : Len(m.actions[i].components) = 1
    /\ ~isnan(m.fixed_total_volume)
    /\ \A k \in 1..Len(VolumesAtTotal(m)) :
          /\ QGe(VolumesAtTotal(m)[k], m.min_volume)
          /\ ~QGt(VolumesAtTotal(m)[k], m.fixed_total_volume)
    /\ ~NestedTooSmall(m)
    /\ QLt(m.fixed_total_volume, QSum(VolumesAtTotal(m), ZERO_VOL))

C7_Fits(m) ==
    /\ OnlyFixedVolumeActions(m)
    /\ ~isnan(m.fixed_total_volume)
    /\ \A k \in 1..Len(VolumesAtTotal(m)) : QGe(VolumesAtTotal(m)[k], m.min_volume)
    /\ QGe(m.fixed_total_volume, QSum(VolumesAtTotal(m), ZERO_VOL))
    /\ \/ QEq(QSub(m.fixed_total_volume, QSum(VolumesAtTotal(m), ZERO_VOL)), ZERO_VOL)
       \/ QGe(QSub(m.fixed_total_volume, QSum(VolumesAtTotal(m), ZERO_VOL)), m.min_volume)

\* C7 as first stated: such a mix has the buffer volume total - sum and
\* validate returns an empty list.
C7_NoFindings ==
    /\ (pc = "buffer_volume" /\ C7_Fits(mix))
        => result = Returned(QSub(mix.fixed_total_volume,
                                  QSum(VolumesAtTotal(mix), ZERO_VOL)))
    /\ (pc = "validate" /\ args = <<"pipe">> /\ C7_Fits(mix))
        => result = Returned(<<>>)

\* C7: such a mix, when none of its components is a nested mix whose fixed
\* total volume is smaller than the volume drawn from it, has the buffer
\* volume total - sum and validate returns an empty list.
C7_NoFindingsUnlessNested ==
    /\ (pc = "buffer_volume" /\ C7_Fits(mix))
        => result = Returned(QSub(mix.fixed_total_volume,
                                  QSum(VolumesAtTotal(mix), ZERO_VOL)))
    /\ (pc = "validate" /\ args = <<"pipe">> /\ C7_Fits(mix) /\ ~NestedTooSmall(mix))
        => result = Returned(<<>>)

\* C7 happens: 5 uL + 10 uL in a fixed 20 uL was validated.
C7_Witness ==
    /\ ValidateReturned
    /\ C7_Fits(mix)
    /\ mix.fixed_total_volume = Qty(20000, 1)
    /\ VolumesAtTotal(mix) = <<Qty(5000, 1), Qty(10000, 1)>>
    /\ result.value = <<>>

\* C8: a mix with a fixed-concentration action and no fixed total volume is
\* reported by validate as needing a fixed_total_volume, and its total
\* volume is undefined.
C8_FixedConcentrationNeedsTotal ==
    /\ (ValidateReturned /\ isnan(mix.fixed_total_volume)
            /\ HasFixedConcentrationAction(mix))
        => \E i \in 1..Len(result.value) :
              result.value[i].category = "fixed_total_volume must be specified"
    /\ (pc = "total_volume" /\ ~result.raised /\ isnan(mix.fixed_total_volume)
            /\ HasFixedConcentrationAction(mix))
        => isnan(result.value)

\* C8 happens: a mix of a fixed-volume and a fixed-concentration action
\* without a fixed total volume was validated.
C8_Witness ==
    /\ ValidateReturned
    /\ isnan(mix.fixed_total_volume)
    /\ HasFixedConcentrationAction(mix)
    /\ \E i \in 1..Len(mix.actions) : mix.actions[i].kind = "FixedVolume"
    /\ "fixed_total_volume must be specified" \in Categories

\* C9: validate reports every line whose per-transfer volume is defined,
\* non-zero and below min_volume, and no other line, at its min-volume
\* check; the buffer line, when it is such a line, gets the negative-buffer
\* finding and not the generic one.
C9_MinVolumeFindings ==
    ValidateReturned =>
        LET lines == mixlines(mix, "Buffer")
            nbuf == IF ~isnan(mix.fixed_total_volume) THEN 1 ELSE 0
            below == {i \in 1..Len(lines) : BelowMin(mix, lines[i].each_tx_vol)}
        IN  /\ \A i \in below \cap (1..(Len(lines) - nbuf)) :
                  VolumeError("lower than min_volume", lines[i].names) \in Findings
            /\ Len(SelectSeq(result.value,
                     LAMBDA f : f.category \in {"lower than min_volume",
                                                "negative buffer volume"}))
                 = Cardinality(below)
            /\ (nbuf = 1 /\ Len(lines) \in below)
                  => VolumeError("negative buffer volume", <<mix.name>>) \in Findings

\* C10: for a component that is a mix and from which a defined volume is
\* drawn, validate reports a finding naming both mixes just when the nested
\* mix's fixed total volume is not at least that volume.
C10_NestedMixFindings ==
    ValidateReturned =>
        \A k \in 1..Len(ComponentsOf(mix)) :
            (ComponentsOf(mix)[k].is_mix /\ ~isnan(VolumesAtTotal(mix)[k]))
                => (~QGe(ComponentsOf(mix)[k].fixed_total_volume, VolumesAtTotal(mix)[k])
                    <=> VolumeError("intermediate mix",
                                    <<ComponentsOf(mix)[k].name, mix.name>>) \in Findings)

(***************************************************************************)
(* Construction: the constructors of Mix and of the Echo actions, an       *)
(* assignment to Mix.actions, and a first use of a constructed action.     *)
(* mix holds the object once it is constructed.                            *)
(***************************************************************************)
\* A constructor argument for Mix.actions: left out, None, one action that
\* is not wrapped in a sequence, or a sequence of actions.
ActionsArgument(shape, items) == [shape |-> shape, items |-> items]

NoneAction == [kind |-> "None"]

maybesequence_action(object_or_sequence) ==
    IF object_or_sequence.shape = "sequence" THEN object_or_sequence.items
    ELSE IF object_or_sequence.shape = "one" THEN <<object_or_sequence.items[1]>>
    ELSE <<NoneAction>>

\* The converter has run before: actions is a list, never None.
attrs_post_init_raises(actions) == Len(actions) = 0

check_volume_raises(a) ==
    (a.fixed_volume.n * a.droplet_volume.d)
        % (a.droplet_volume.n * a.fixed_volume.d) # 0

Unbuilt == [kind |-> "unbuilt"]

ConstructorCall(class, actions, components, volume, method) ==
    [class |-> class, actions |-> actions, components |-> components,
     fixed_total_volume |-> volume, fixed_volume |-> volume,
     target_total_volume |-> volume, method |-> method]

ActionsArguments ==
    {ActionsArgument("missing", <<>>), ActionsArgument("None", <<>>)}
    \cup {ActionsArgument("one", <<a>>) :
            a \in {FixedVolume(<<CompA>>, Qty(5000, 1)),
                   EchoFixedVolume(<<CompA>>, Qty(30, 1))}}
    \cup {ActionsArgument("sequence", as) :
            as \in {<<>>} \cup UNION {[1..n -> {FixedVolume(<<CompA>>, Qty(5000, 1)),
                                               FixedConcentration(<<CompB>>, Qty(50, 1)),
                                               EchoFillToVolume(<<CompB>>, DNAN)}]
                                      : n \in 1..MaxActions}}

ComponentLists == UNION {[1..n -> {CompA, CompB, CompU}] : n \in 1..MaxComps}

ConstructInputs ==
    {ConstructorCall("Mix", x, <<>>, v, "") :
        x \in ActionsArguments, v \in {DNAN, Qty(20000, 1)}}
    \cup {ConstructorCall("EchoFixedVolume", ActionsArgument("missing", <<>>),
                          cs, Qty(v, 1), "") :
            cs \in ComponentLists, v \in {5000, 30, 0}}
    \cup {ConstructorCall("EchoEqualTargetConcentration",
                          ActionsArgument("missing", <<>>), cs, Qty(v, 1), me) :
            cs \in ComponentLists, v \in {5000, 30},
            me \in {"min_volume", "max_volume", "max_fill", "check", "equal"}}
    \cup {ConstructorCall("EchoFillToVolume", ActionsArgument("missing", <<>>),
                          cs, t, "") :
            cs \in ComponentLists, t \in {DNAN, Qty(10000, 1)}}

\* The sibling actions a constructed action is used beside.
SiblingInputs ==
    {<<>>, <<FixedVolume(<<CompA>>, Qty(5000, 1))>>,
     <<EchoEqualTargetConcentration(<<CompA, CompB>>, Qty(5000, 1), "check")>>}

InitConstruct ==
    /\ mix = Unbuilt
    /\ pc = "init"
    /\ args \in ConstructInputs
    /\ result = Returned(<<>>)

\* Mix(actions, name, fixed_total_volume=...): the generated __init__ needs
\* the actions argument, converts it, and runs __attrs_post_init__.
NewMix ==
    /\ pc = "init"
    /\ args.class = "Mix"
    /\ pc' = "Mix"
    /\ IF \/ args.actions.shape = "missing"
          \/ attrs_post_init_raises(maybesequence_action(args.actions))
       THEN /\ result' = Raised
            /\ mix' = mix
       ELSE /\ mix' = Mix(maybesequence_action(args.actions), "m",
                          args.fixed_total_volume, NoneConc, "Buffer")
            /\ result' = Returned(<<>>)
    /\ UNCHANGED args

\* mix.actions = x on a constructed Mix: the converter runs, nothing else.
SetActions(x) ==
    /\ pc = "Mix"
    /\ ~result.raised
    /\ x.shape # "missing"
    /\ pc' = "setattr"
    /\ mix' = [mix EXCEPT !.actions = maybesequence_action(x)]
    /\ UNCHANGED <<args, result>>

NewEchoFixedVolume ==
    /\ pc = "init"
    /\ args.class = "EchoFixedVolume"
    /\ pc' = "EchoFixedVolume"
    /\ mix' = EchoFixedVolume(args.components, args.fixed_volume)
    /\ result' = Returned(<<>>)
    /\ UNCHANGED args

NewEchoEqualTargetConcentration ==
    /\ pc = "init"
    /\ args.class = "EchoEqualTargetConcentration"
    /\ pc' = "EchoEqualTargetConcentration"
    /\ mix' = EchoEqualTargetConcentration(args.components, args.fixed_volume,
                                           args.method)
    /\ result' = Returned(<<>>)
    /\ UNCHANGED args

NewEchoFillToVolume ==
    /\ pc = "init"
    /\ args.class = "EchoFillToVolume"
    /\ pc' = "EchoFillToVolume"
    /\ mix' = EchoFillToVolume(args.components, args.target_total_volume)
    /\ result' = Returned(<<>>)
    /\ UNCHANGED args

\* The constructed action's each_volumes, called beside the siblings.
UseEachVolumes(mix_vol, siblings) ==
    /\ pc \in {"EchoFixedVolume", "EchoEqualTargetConcentration", "EchoFillToVolume"}
    /\ ~result.raised
    /\ pc' = "each_volumes"
    /\ result' = (IF each_volumes_raises(mix, mix_vol, siblings \o <<mix>>)
                  THEN Raised
                  ELSE Returned(each_volumes(mix, mix_vol, siblings \o <<mix>>)))
    /\ UNCHANGED <<mix, args>>

NextConstruct ==
    \/ NewMix
    \/ \E x \in ActionsArguments : SetActions(x)
    \/ NewEchoFixedVolume
    \/ NewEchoEqualTargetConcentration
    \/ NewEchoFillToVolume
    \/ \E mix_vol \in MixVolInputs, siblings \in SiblingInputs :
          UseEachVolumes(mix_vol, siblings)

ConstructSpec == InitConstruct /\ [][NextConstruct]_vars

(***************************************************************************)
(* Components of a mix: Mix.all_components and Mix.concentration on mixes  *)
(* whose actions share component names.                                    *)
(***************************************************************************)
ComponentActionInputs ==
    {FixedVolume(cs, Qty(5000, 1)) :
        cs \in {<<CompA>>, <<CompA, CompB>>, <<CompU>>, <<MixSmall>>}}
    \cup {FixedVolume(<<CompB>>, Qty(10000, 1)),
          FixedConcentration(<<CompA>>, Qty(50, 1)),
          EchoEqualTargetConcentration(<<CompA, CompB>>, Qty(5000, 1), "check")}

ComponentActionLists ==
    UNION {[1..n -> ComponentActionInputs] : n \in 1..MaxActions}

FixedConcentrationInputs ==
    {NoneConc, QuantityConc(Qty(75, 1)), NameConc("a"), NameConc("b"), NameConc("u")}

ComponentMixInputs ==
    {Mix(as, "m", v, fc, "Buffer") :
        as \in ComponentActionLists, v \in {DNAN, Qty(20000, 1)},
        fc \in FixedConcentrationInputs}

InitComponents ==
    /\ mix \in ComponentMixInputs
    /\ pc = "init"
    /\ args = <<>>
    /\ result = Returned(<<>>)

AllComponents ==
    /\ pc' = "all_components"
    /\ args' = <<>>
    /\ result' = IF all_components_raises(mix) THEN Raised
                 ELSE Returned(all_components(mix))
    /\ UNCHANGED mix

Concentration ==
    /\ pc' = "concentration"
    /\ args' = <<>>
    /\ result' = IF concentration_raises(mix) THEN Raised
                 ELSE Returned(concentration(mix))
    /\ UNCHANGED mix

NextComponents == AllComponents \/ Concentration

ComponentsSpec == InitComponents /\ [][NextComponents]_vars

(***************************************************************************)
(* Properties of the actions called on their own.                          *)
(***************************************************************************)
TheAction == mix.actions[args[1]]

TheMixVol == args[2]

TheSourceConcs == source_concentrations(TheAction)

IsEcho(a) ==
    a.kind \in {"EchoFixedVolume", "EchoEqualTargetConcentration",
                "EchoTargetConcentration", "EchoFillToVolume"}

IsDropletMultiple(v, droplet_volume) == QDiv(v, droplet_volume).d = 1

\* The other actions of the list, and what they transfer together.
TheOthers == SelectSeq(mix.actions, LAMBDA o : o # TheAction)

OthersMayRaise ==
    \E j \in 1..Len(TheOthers) :
        each_volumes_raises(TheOthers[j], TheMixVol, mix.actions)

TheOtherVolume ==
    QSum(Flatten([j \in 1..Len(TheOthers) |->
                    each_volumes(TheOthers[j], TheMixVol, mix.actions)]), ZERO_VOL)

\* C14: every defined volume an Echo action's each_volumes returns is an
\* integer multiple of the action's droplet_volume.
C14_DropletMultiples ==
    (pc = "each_volumes" /\ IsEcho(TheAction) /\ ~result.raised)
        => \A k \in 1..Len(result.value) :
              ~isnan(result.value[k])
                  => IsDropletMultiple(result.value[k], TheAction.droplet_volume)

\* C16: under "check", each_volumes raises when two source concentrations
\* differ, and returns the fixed volume for every component when they are
\* all equal.
C16_CheckPolicy ==
    (pc = "each_volumes" /\ TheAction.kind = "EchoEqualTargetConcentration"
        /\ TheAction.method = "check")
        => /\ (\E i, j \in 1..Len(TheSourceConcs) :
                    /\ ~isnan(TheSourceConcs[i]) /\ ~isnan(TheSourceConcs[j])
                    /\ TheSourceConcs[i] # TheSourceConcs[j])
                => result.raised
           /\ (\A i, j \in 1..Len(TheSourceConcs) :
                    QEq(TheSourceConcs[i], TheSourceConcs[j]))
                => result = Returned([k \in 1..Len(TheAction.components) |->
                                         TheAction.fixed_volume])

\* C16 happens: "check" raised on 100 nM against 100.001 nM.
C16_Witness ==
    /\ pc = "each_volumes"
    /\ TheAction.kind = "EchoEqualTargetConcentration"
    /\ TheAction.method = "check"
    /\ TheSourceConcs = <<Qty(100, 1), Qty(100001, 1000)>>
    /\ result.raised

\* The raises an action documents: "check" on two differing defined
\* concentrations, an unknown method, a fill action with more than one
\* component or beside another fill action.
DocumentedRaise(a, actions) ==
    \/ /\ a.kind = "EchoEqualTargetConcentration"
       /\ \/ a.method \notin {"min_volume", "max_volume", "check"}
          \/ /\ a.method = "check"
             /\ \E i, j \in 1..Len(a.components) :
                   /\ ~isnan(source_concentrations(a)[i])
                   /\ ~isnan(source_concentrations(a)[j])
                   /\ source_concentrations(a)[i] # source_concentrations(a)[j]
    \/ /\ a.kind = "EchoFillToVolume"
       /\ \/ Len(a.components) > 1
          \/ \E j \in 1..Len(actions) :
                actions[j] # a /\ actions[j].kind = "EchoFillToVolume"

\* C17: a call with an undefined mix volume or an undefined source
\* concentration does not raise (unless the action documents the raise,
\* for itself or for an action it sums), and with an undefined mix volume
\* every destination concentration is undefined.
C17_UndefinedPropagates ==
    (pc \in {"each_volumes", "dest_concentrations"}
        /\ (isnan(TheMixVol) \/ AnyNan(TheSourceConcs))
        /\ ~DocumentedRaise(TheAction, mix.actions)
        /\ (TheAction.kind = "EchoFillToVolume"
                => \A j \in 1..Len(mix.actions) :
                      ~DocumentedRaise(mix.actions[j], mix.actions)))
        => /\ ~result.raised
           /\ (pc = "dest_concentrations" /\ isnan(TheMixVol))
                => \A k \in 1..Len(result.value) : isnan(result.value[k])

\* The one fill action of a list, of one component, beside actions whose
\* volumes are defined, filling to a defined target.
C18_Fills ==
    /\ pc = "each_volumes"
    /\ TheAction.kind = "EchoFillToVolume"
    /\ Len(TheAction.components) = 1
    /\ \A j \in 1..Len(TheOthers) : TheOthers[j].kind # "EchoFillToVolume"
    /\ ~OthersMayRaise
    /\ ~isnan(TheOtherVolume)
    /\ ~isnan(FillTarget(TheAction, TheMixVol))

C18_TargetTotal ==
    IF isnan(TheAction.target_total_volume) THEN TheMixVol
    ELSE TheAction.target_total_volume

\* C18: the component of a fill action gets the target total (the explicit
\* target, else the mix volume) minus what the other actions transfer,
\* rounded to droplets; all volumes add up to the target total when that
\* difference is a droplet multiple.
C18_FillToVolume ==
    C18_Fills
        => /\ ~result.raised
           /\ Len(result.value) = 1
           /\ IsDropletMultiple(result.value[1], TheAction.droplet_volume)
           /\ ~QGt(QMul(Qty(2, 1), QSub(result.value[1],
                        QSub(C18_TargetTotal, TheOtherVolume))),
                   TheAction.droplet_volume)
           /\ ~QGt(QMul(Qty(2, 1), QSub(QSub(C18_TargetTotal, TheOtherVolume),
                        result.value[1])),
                   TheAction.droplet_volume)
           /\ IsDropletMultiple(QSub(C18_TargetTotal, TheOtherVolume),
                                TheAction.droplet_volume)
                => QAdd(result.value[1], TheOtherVolume) = C18_TargetTotal

\* C18 happens: a fill action with the explicit target 10 uL beside 5 uL of
\* another action, called with a mix volume of 20 uL, gave 5 uL.
C18_Witness ==
    /\ C18_Fills
    /\ TheAction.target_total_volume = Qty(10000, 1)
    /\ TheMixVol = Qty(20000, 1)
    /\ TheOtherVolume = Qty(5000, 1)
    /\ result = Returned(<<Qty(5000, 1)>>)

\* A fixed-concentration action called for its destination concentrations
\* with a defined mix volume.
C20_Solved ==
    /\ pc = "dest_concentrations"
    /\ TheAction.kind \in {"FixedConcentration", "EchoTargetConcentration"}
    /\ ~isnan(TheMixVol)
    /\ ~result.raised

C20_Target ==
    IF TheAction.kind = "FixedConcentration" THEN TheAction.fixed_concentration
    ELSE TheAction.target_concentration

C11_NoEmptyMix ==
    /\ (pc = "Mix" /\ (args.actions.shape \in {"missing", "None"}
                        \/ args.actions = ActionsArgument("sequence", <<>>)))
        => result.raised
    /\ (pc \in {"Mix", "setattr"} /\ ~result.raised)
        => (Len(mix.actions) > 0
            /\ \A i \in 1..Len(mix.actions) : mix.actions[i] # NoneAction)

\* C15: constructing an Echo action with a fixed volume that is not a
\* multiple of its droplet volume raises.
C15_NonMultipleRejected ==
    (pc \in {"EchoFixedVolume", "EchoEqualTargetConcentration"}
        /\ check_volume_raises(EchoFixedVolume(args.components, args.fixed_volume)))
        => result.raised

\* C19 as first stated: constructing a fill-to-volume action with more than
\* one component raises.
C19_RejectedAtConstruction ==
    (pc = "EchoFillToVolume" /\ Len(args.components) > 1) => result.raised

\* C19: a fill-to-volume action with more than one component is constructed
\* without an error, and its each_volumes raises on every call.
C19_RejectedAtUse ==
    /\ (pc = "EchoFillToVolume" /\ Len(args.components) > 1)
        => (~result.raised /\ mix.components = args.components)
    /\ (pc = "each_volumes" /\ mix.kind = "EchoFillToVolume"
            /\ Len(mix.components) > 1)
        => result.raised

\* C19 happens: each_volumes of a constructed two-component fill action
\* raised.
C19_Witness ==
    /\ pc = "each_volumes"
    /\ mix.kind = "EchoFillToVolume"
    /\ Len(mix.components) = 2
    /\ result.raised

(***************************************************************************)
(* Properties of the components of a mix.                                  *)
(***************************************************************************)
\* What one component of an action brings of a name into the mix: its
\* destination concentration for a leaf of that name; for a mix used as a
\* component, the share dest/source of what that mix holds of the name.
Contribution(c, dc, name) ==
    IF c.is_mix
    THEN QSum([i \in 1..Len(c.actions) |->
                QSum([k \in 1..Len(c.actions[i].components) |->
                        IF c.actions[i].components[k].name = name
                        THEN QMul(dest_concentrations(c.actions[i], total_volume(c),
                                                      c.actions)[k],
                                  QDiv(dc, concentration(c)))
                        ELSE Qty(0, 1)], Qty(0, 1))], Qty(0, 1))
    ELSE IF c.name = name THEN dc ELSE Qty(0, 1)

\* The sum of what every component of every action brings of a name.
Contributions(m, name) ==
    QSum([i \in 1..Len(m.actions) |->
            QSum([k \in 1..Len(m.actions[i].components) |->
                    Contribution(m.actions[i].components[k],
                                 dest_concentrations(m.actions[i], total_volume(m),
                                                     m.actions)[k],
                                 name)], Qty(0, 1))], Qty(0, 1))

\* The names of the leaf components the actions of a mix bring in.
ContributedNames(m) ==
    UNION {UNION {IF m.actions[i].components[k].is_mix
                  THEN UNION {{m.actions[i].components[k].actions[j].components[l].name :
                                l \in 1..Len(m.actions[i].components[k].actions[j].components)} :
                              j \in 1..Len(m.actions[i].components[k].actions)}
                  ELSE {m.actions[i].components[k].name} :
                  k \in 1..Len(m.actions[i].components)} :
           i \in 1..Len(m.actions)}

\* C12: concentration is the fixed quantity if one is given; else, for a
\* name, the row of that name in all_components(), which is the sum of what
\* every occurrence of the name brings when each brings a defined amount;
\* else the destination concentration of the first component of the first
\* action at the mix's total volume.
C12_ConcentrationOrder ==
    (pc = "concentration" /\ ~result.raised)
        => CASE mix.fixed_concentration.kind = "Quantity" ->
                    result.value = mix.fixed_concentration.q
             [] mix.fixed_concentration.kind = "Name" ->
                    /\ mix.fixed_concentration.name \in ContributedNames(mix)
                    /\ result.value = Lookup(all_components(mix),
                                             mix.fixed_concentration.name)
                    /\ ~isnan(Contributions(mix, mix.fixed_concentration.name))
                        => result.value
                             = Contributions(mix, mix.fixed_concentration.name)
             [] mix.fixed_concentration.kind = "None" ->
                    result.value
                      = QMul(concentration(mix.actions[1].components[1]),
                             QDiv(each_volumes(mix.actions[1], total_volume(mix),
                                               mix.actions)[1],
                                  total_volume(mix)))

\* C12 happens: "a" named as the concentration of a mix of 20 uL that takes
\* 5 uL of a at 100 nM twice resolved to 50 nM.
C12_Witness ==
    /\ pc = "concentration"
    /\ mix.fixed_concentration = NameConc("a")
    /\ mix.fixed_total_volume = Qty(20000, 1)
    /\ mix.actions = <<FixedVolume(<<CompA>>, Qty(5000, 1)),
                       FixedVolume(<<CompA, CompB>>, Qty(5000, 1))>>
    /\ result = Returned(Qty(50, 1))

\* C13: all_components() has one row for every contributed name, no two
\* rows of one name, and the concentration of a row is the sum of what the
\* actions bring of its name.
C13_OneSummedRowPerName ==
    (pc = "all_components" /\ ~result.raised)
        => /\ {result.value[i].name : i \in 1..Len(result.value)}
                = ContributedNames(mix)
           /\ \A i, j \in 1..Len(result.value) :
                 result.value[i].name = result.value[j].name => i = j
           /\ \A i \in 1..Len(result.value) :
                 result.value[i].concentration_nM
                    = Contributions(mix, result.value[i].name)

(***************************************************************************)
(* Properties of the equal-target-concentration policies.                  *)
(***************************************************************************)
\* each_volumes was called on a constructed equal-target-concentration
\* action under a scaling policy, every source concentration defined.
C21_Scaled ==
    /\ pc = "each_volumes"
    /\ mix.kind = "EchoEqualTargetConcentration"
    /\ mix.method \in {"min_volume", "max_volume", "max_fill"}
    /\ ~AnyNan(source_concentrations(mix))

\* The reference concentration: the largest under min_volume, else the
\* smallest.
C21_Ref ==
    CHOOSE c \in {source_concentrations(mix)[i] : i \in 1..Len(mix.components)} :
        \A i \in 1..Len(mix.components) :
            IF mix.method = "min_volume"
            THEN ~QGt(source_concentrations(mix)[i], c)
            ELSE ~QLt(source_concentrations(mix)[i], c)

C21_Exact(i) ==
    QDiv(QMul(mix.fixed_volume, C21_Ref), source_concentrations(mix)[i])

\* C21: component i gets the droplet multiple nearest to
\* fixed_volume * c_ref / c_i; for a fixed volume that is a droplet multiple
\* no transfer is below it under min_volume, none above it under
\* max_volume / max_fill, and the component at c_ref gets it exactly.
C21_EqualTargetVolumes ==
    C21_Scaled
        => /\ ~result.raised
           /\ Len(result.value) = Len(mix.components)
           /\ \A i \in 1..Len(mix.components) :
                /\ IsDropletMultiple(result.value[i], mix.droplet_volume)
                /\ ~QGt(QMul(Qty(2, 1), QSub(result.value[i], C21_Exact(i))),
                        mix.droplet_volume)
                /\ ~QGt(QMul(Qty(2, 1), QSub(C21_Exact(i), result.value[i])),
                        mix.droplet_volume)
                /\ IsDropletMultiple(mix.fixed_volume, mix.droplet_volume)
                    => /\ IF mix.method = "min_volume"
                          THEN ~QLt(result.value[i], mix.fixed_volume)
                          ELSE ~QGt(result.value[i], mix.fixed_volume)
                       /\ source_concentrations(mix)[i] = C21_Ref
                            => result.value[i] = mix.fixed_volume

\* C21 happens: 5 uL under min_volume at 100 nM and 200 nM gave 10 uL and
\* 5 uL.
C21_Witness ==
    /\ C21_Scaled
    /\ mix.method = "min_volume"
    /\ mix.fixed_volume = Qty(5000, 1)
    /\ source_concentrations(mix) = <<Qty(100, 1), Qty(200, 1)>>
    /\ result = Returned(<<Qty(10000, 1), Qty(5000, 1)>>)

(***************************************************************************)
(* split_mix.  Python lists are objects: mix holds the template (obj, its  *)
(* actions field naming a list) and the lists that exist (lists), so that  *)
(* a write through a shared list would show in the template.               *)
(***************************************************************************)
\* list(x): a new list object holding the items of x.
\* Mutant: no copy is made, the same list object is used.
NewList_alias(lists, new, src) == [lists |-> lists, id |-> src]

NewList(lists, new, src) == [lists |-> (new :> lists[src]) @@ lists, id |-> new]

\* The template with its action list read out.
Template(store) == [store.obj EXCEPT !.actions = store.lists[store.obj.actions]]

\* An excess argument: its Python type and its value.  A float is written
\* by its shortest decimal, which is what 1 + Decimal(excess) comes to.
Excess(type, value) == [type |-> type, value |-> value]

split_mix_type_error(excess) == excess.type \notin {"float", "int", "Decimal"}

\* Mutant: the excess is left out of the multiplier.
volume_multiplier_no_excess(num_tubes, excess) == Qty(num_tubes, 1)

\* volume_multiplier = num_tubes * (1 + excess)
volume_multiplier(num_tubes, excess) ==
    QMul(Qty(num_tubes, 1), QAdd(Qty(1, 1), excess.value))

\* The loop over enumerate(actions): a FixedVolume action is replaced by a
\* new FixedVolume of the same components and the larger volume.
LargeActions(actions, multiplier) ==
    [i \in 1..Len(actions) |->
        IF actions[i].kind = "FixedVolume"
        THEN FixedVolume(actions[i].components,
                         QMul(actions[i].fixed_volume, multiplier))
        ELSE actions[i]]

\* fixed_total_volume=large_volume if mix.fixed_total_volume is not None
\* else None: the attribute is a quantity, undefined when none was given,
\* and never None.
LargeFixedTotalVolume(m, large_volume) == large_volume

split_mix_raises(store, num_tubes, excess) ==
    split_mix_type_error(excess) \/ total_volume_raises(Template(store))

\* The lists after actions = list(mix.actions), the replacements in
\* actions, and the list(actions) of the constructor's converter.
SplitLists(copied, multiplier) ==
    NewList([copied.lists EXCEPT ![copied.id] = LargeActions(@, multiplier)],
            "large", copied.id)

SplitLarge(store, built, large_volume) ==
    [lists |-> built.lists,
     large |-> [store.obj EXCEPT
                    !.actions = built.id,
                    !.fixed_total_volume = LargeFixedTotalVolume(store.obj, large_volume)]]

split_mix(store, num_tubes, excess) ==
    SplitLarge(store,
               SplitLists(NewList(store.lists, "actions", store.obj.actions),
                          volume_multiplier(num_tubes, excess)),
               QMul(total_volume(Template(store)), volume_multiplier(num_tubes, excess)))

SplitActionInputs ==
    {FixedVolume(<<CompA>>, Qty(1000, 1)), FixedVolume(<<CompA, CompB>>, Qty(5000, 1)),
     FixedConcentration(<<CompA>>, Qty(50, 1)), EchoFixedVolume(<<CompA>>, Qty(5000, 1)),
     EchoFillToVolume(<<CompB>>, DNAN),
     EchoEqualTargetConcentration(<<CompA, CompB>>, Qty(5000, 1), "check")}

SplitActionLists == UNION {[1..n -> SplitActionInputs] : n \in 1..MaxActions}

TubeInputs == {1, 10}

ExcessInputs ==
    {Excess("int", Qty(0, 1)), Excess("float", Qty(1, 20)),
     Excess("Decimal", Qty(1, 10)), Excess("str", Qty(1, 20))}

InitSplit ==
    /\ mix \in {[obj |-> Mix("template", "m", v, NoneConc, "Buffer"),
                 lists |-> ("template" :> as)] :
                    as \in SplitActionLists, v \in {DNAN, Qty(20000, 1)}}
    /\ pc = "init"
    /\ args = <<>>
    /\ result = Returned(<<>>)

\* split_mix(mix, num_tubes, excess); args keeps the template as it was
\* when the call was made.
SplitMix(num_tubes, excess) ==
    /\ pc = "init"
    /\ pc' = "split_mix"
    /\ args' = <<Template(mix), num_tubes, excess>>
    /\ IF split_mix_raises(mix, num_tubes, excess)
       THEN /\ result' = Raised
            /\ mix' = mix
       ELSE /\ result' = Returned(split_mix(mix, num_tubes, excess).large)
            /\ mix' = [mix EXCEPT !.lists = split_mix(mix, num_tubes, excess).lists]

NextSplit == \E num_tubes \in TubeInputs, excess \in ExcessInputs : SplitMix(num_tubes, excess)

SplitSpec == InitSplit /\ [][NextSplit]_vars

(***************************************************************************)
(* Properties of split_mix.                                                *)
(***************************************************************************)
SplitReturned == pc = "split_mix" /\ ~result.raised

\* The actions of the returned mix.
LargeMixActions == mix.lists[result.value.actions]

\* num_tubes * (1 + excess) of the call.
C22_Multiplier == Qty(args[2] * (args[3].value.d + args[3].value.n), args[3].value.d)

\* C22: the returned mix has as many actions as the template, in the same
\* order: a FixedVolume action with its volume multiplied by n * (1 + e),
\* every other action as it is in the template.
C22_ScaledActions ==
    SplitReturned
        => /\ Len(LargeMixActions) = Len(args[1].actions)
           /\ \A i \in 1..Len(args[1].actions) :
                IF args[1].actions[i].kind = "FixedVolume"
                THEN LargeMixActions[i]
                       = [args[1].actions[i] EXCEPT
                            !.fixed_volume = QMul(@, C22_Multiplier)]
                ELSE LargeMixActions[i] = args[1].actions[i]

\* C22 happens: 1 uL with 10 tubes and an excess of 0.05 became 10.5 uL,
\* beside a fixed-concentration action left as it was.
C22_Witness ==
    /\ SplitReturned
    /\ args[2] = 10
    /\ args[3] = Excess("float", Qty(1, 20))
    /\ args[1].actions = <<FixedVolume(<<CompA>>, Qty(1000, 1)),
                           FixedConcentration(<<CompA>>, Qty(50, 1))>>
    /\ LargeMixActions = <<FixedVolume(<<CompA>>, Qty(10500, 1)),
                           FixedConcentration(<<CompA>>, Qty(50, 1))>>

\* C23: the returned mix's fixed total volume is the template's multiplied
\* by n * (1 + e) when the template has one, and undefined when the
\* template has none.
C23_FixedTotalVolume ==
    SplitReturned
        => IF has_fixed_total_volume(args[1])
           THEN result.value.fixed_total_volume
                  = QMul(args[1].fixed_total_volume, C22_Multiplier)
           ELSE ~has_fixed_total_volume(result.value)

\* C30: after split_mix the template has the actions, the fixed total
\* volume, the total volume and the buffer volume it had when the call was
\* made, and the returned mix's action list is not the template's.
C30_TemplateUntouched ==
    pc = "split_mix"
        => /\ Template(mix) = args[1]
           /\ total_volume_raises(Template(mix)) = total_volume_raises(args[1])
           /\ ~total_volume_raises(args[1])
                => /\ total_volume(Template(mix)) = total_volume(args[1])
                   /\ BufferVolumeAt(Template(mix), total_volume(Template(mix)))
                        = BufferVolumeAt(args[1], total_volume(args[1]))
           /\ ~result.raised => result.value.actions # mix.obj.actions

\* C30 happens: a split that replaced a FixedVolume action in the returned
\* mix left the template's list as it was.
C30_Witness ==
    /\ SplitReturned
    /\ args[3].value # Qty(0, 1)
    /\ args[1].actions[1].kind = "FixedVolume"
    /\ LargeMixActions[1] # args[1].actions[1]
    /\ mix.lists[mix.obj.actions][1] = args[1].actions[1]

(***************************************************************************)
(* Components with a location, their equality, and with_reference against  *)
(* a reference table.  mix holds the receiver.                             *)
(***************************************************************************)
\* A sequence attribute: None, or a string written as its characters.
NoneSeq == [is_str |-> FALSE, chars |-> <<>>]

StrSeq(chars) == [is_str |-> TRUE, chars |-> chars]

\* Component(name, concentration, plate=..., well=...); plate "" and well ""
\* stand for no plate and no well.
LocatedComponent(name, conc, plate, well) ==
    [class |-> "Component", name |-> name, concentration |-> conc,
     plate |-> plate, well |-> well, sequence |-> NoneSeq]

Strand(name, conc, plate, well, sequence) ==
    [class |-> "Strand", name |-> name, concentration |-> conc,
     plate |-> plate, well |-> well, sequence |-> sequence]

\* Mutant: components on different plates are not equal.
component_eq_located(self, other) ==
    IF other.class # "Component" THEN FALSE
    ELSE IF self.name # other.name THEN FALSE
    ELSE IF self.plate # other.plate THEN FALSE
    ELSE IF isnan(self.concentration) /\ isnan(other.concentration) THEN TRUE
    ELSE QEq(self.concentration, other.concentration)

\* Component.__eq__
component_eq(self, other) ==
    IF other.class # "Component" THEN FALSE
    ELSE IF self.name # other.name THEN FALSE
    ELSE IF isnan(self.concentration) /\ isnan(other.concentration) THEN TRUE
    ELSE QEq(self.concentration, other.concentration)

\* A row of the reference table.
ReferenceRow(name, conc, plate, well, sequence) ==
    [Name |-> name, Concentration |-> conc, Plate |-> plate,
     Well |-> well, Sequence |-> sequence]

\* ref_by_name.loc[[self.name], :]: the rows of that name, in table order;
\* KeyError when there is none.
ref_comps(reference, name) == SelectSeq(reference, LAMBDA r : r.Name = name)

\* The three tests of the loop that a row passes to be a match.
FieldsMatch(self, ref_comp) ==
    /\ isnan(self.concentration) \/ QEq(ref_comp.Concentration, self.concentration)
    /\ self.plate = "" \/ ref_comp.Plate = self.plate
    /\ self.well = "" \/ self.well = ref_comp.Well

\* x.replace(" ", "").replace("-", "")
Unspaced(chars) == SelectSeq(chars, LAMBDA c : c \notin {" ", "-"})

\* Strand.with_reference's loop: the receiver's sequence is overwritten by
\* its unspaced form whenever a row comes to the sequence test.
RECURSIVE StrandScan(_, _, _, _)
StrandScan(self, rows, k, matches) ==
    IF k > Len(rows) THEN [self |-> self, matches |-> matches]
    ELSE IF ~FieldsMatch(self, rows[k]) THEN StrandScan(self, rows, k + 1, matches)
    ELSE IF self.sequence.is_str /\ rows[k].Sequence.is_str
    THEN IF Unspaced(self.sequence.chars) # Unspaced(rows[k].Sequence.chars)
         THEN StrandScan([self EXCEPT !.sequence = StrSeq(Unspaced(@.chars))],
                         rows, k + 1, matches)
         ELSE StrandScan([self EXCEPT !.sequence = StrSeq(Unspaced(@.chars))],
                         rows, k + 1, Append(matches, rows[k]))
    ELSE StrandScan(self, rows, k + 1, Append(matches, rows[k]))

\* The loop of either class: the receiver after it and the matches.
Scan(self, rows) ==
    IF self.class = "Strand" THEN StrandScan(self, rows, 1, <<>>)
    ELSE [self |-> self, matches |-> SelectSeq(rows, LAMBDA r : FieldsMatch(self, r))]

\* Mutant: any mismatched row raises.
ScanRaises_any_mismatch(scanned, rows) ==
    rows # <<>> /\ Len(scanned.matches) < Len(rows)

\* raise ValueError("... has only mismatched references")
ScanRaises(scanned, rows) == rows # <<>> /\ scanned.matches = <<>>

\* seq of Strand.with_reference
MergedSequence(ss, ms) ==
    IF ~ss.is_str /\ ~ms.is_str THEN NoneSeq
    ELSE IF ss.is_str /\ (~ms.is_str \/ ms.chars = <<>>) THEN ss
    ELSE ms

\* The component with the fields of the first match.
Merged(self, match) ==
    [self EXCEPT !.concentration = match.Concentration,
                 !.plate = match.Plate,
                 !.well = match.Well,
                 !.sequence = IF self.class = "Strand"
                              THEN MergedSequence(self.sequence, match.Sequence)
                              ELSE @]

with_reference_raises(self, reference) ==
    ScanRaises(Scan(self, ref_comps(reference, self.name)),
               ref_comps(reference, self.name))

\* What with_reference returns, and the receiver after the call.
WithReferenceOn(self, scanned, rows, inplace) ==
    IF rows = <<>> THEN [returned |-> self, receiver |-> self]
    ELSE IF ScanRaises(scanned, rows) THEN [returned |-> <<>>, receiver |-> scanned.self]
    ELSE [returned |-> Merged(scanned.self, scanned.matches[1]),
          receiver |-> IF inplace THEN Merged(scanned.self, scanned.matches[1])
                       ELSE scanned.self]

with_reference(self, reference, inplace) ==
    WithReferenceOn(self, Scan(self, ref_comps(reference, self.name)),
                    ref_comps(reference, self.name), inplace)

SequenceInputs ==
    {NoneSeq, StrSeq(<<"A", "C", "G">>), StrSeq(<<"A", "C", " ", "G">>)}

ReceiverInputs ==
    {LocatedComponent("a", c, p, w) :
        c \in {DNAN, Qty(100, 1)}, p \in {"", "P1"}, w \in {"", "A1"}}
    \cup {Strand("a", c, p, "", q) :
            c \in {DNAN, Qty(100, 1)}, p \in {"", "P1"}, q \in SequenceInputs}

OtherInputs ==
    ReceiverInputs
    \cup {LocatedComponent("b", Qty(100, 1), "", ""),
          LocatedComponent("a", Qty(200, 1), "P1", "A1")}

RowInputs ==
    {ReferenceRow("a", Qty(100, 1), "P1", "A1", NoneSeq),
     ReferenceRow("a", Qty(100, 1), "P2", "B2", StrSeq(<<"A", "C", "-", "G">>)),
     ReferenceRow("a", Qty(200, 1), "P1", "A1", StrSeq(<<"A", "C", "T">>)),
     ReferenceRow("b", Qty(100, 1), "P1", "A1", NoneSeq)}

ReferenceInputs == UNION {[1..n -> RowInputs] : n \in 0..MaxRows}

InitReference ==
    /\ mix \in ReceiverInputs
    /\ pc = "init"
    /\ args = <<>>
    /\ result = Returned(<<>>)

\* self == other on a Component receiver
Eq(other) ==
    /\ pc = "init"
    /\ mix.class = "Component"
    /\ pc' = "eq"
    /\ args' = <<other>>
    /\ result' = Returned(component_eq(mix, other))
    /\ UNCHANGED mix

\* self.with_reference(reference, inplace); args keeps the receiver as it
\* was when the call was made.
WithReference(reference, inplace) ==
    /\ pc = "init"
    /\ pc' = "with_reference"
    /\ args' = <<reference, inplace, mix>>
    /\ result' = IF with_reference_raises(mix, reference) THEN Raised
                 ELSE Returned(with_reference(mix, reference, inplace).returned)
    /\ mix' = with_reference(mix, reference, inplace).receiver

NextReference ==
    \/ \E other \in OtherInputs : Eq(other)
    \/ \E reference \in ReferenceInputs, inplace \in BOOLEAN :
          WithReference(reference, inplace)

ReferenceSpec == InitReference /\ [][NextReference]_vars

(***************************************************************************)
(* Properties of components and references.                                *)
(***************************************************************************)
\* C24: two Components are equal exactly when their names are equal and
\* their concentrations are both undefined or numerically equal, whatever
\* their plates and wells; equality is symmetric, and a Component equals
\* itself.
C24_ComponentEquality ==
    (pc = "eq" /\ args[1].class = "Component")
        => /\ result.value
                = (/\ mix.name = args[1].name
                   /\ \/ mix.concentration.nan /\ args[1].concentration.nan
                      \/ /\ ~mix.concentration.nan /\ ~args[1].concentration.nan
                         /\ mix.concentration.n * args[1].concentration.d
                              = args[1].concentration.n * mix.concentration.d)
           /\ result.value = component_eq(args[1], mix)
           /\ component_eq(mix, mix)
           /\ (mix.concentration.nan # args[1].concentration.nan) => ~result.value

\* C24 happens: two components of one name, both of undefined
\* concentration, on different plates, compared equal.
C24_Witness ==
    /\ pc = "eq"
    /\ args[1].class = "Component"
    /\ mix.concentration.nan /\ args[1].concentration.nan
    /\ mix.plate # args[1].plate
    /\ result = Returned(TRUE)

\* Row i of the reference has the receiver's name and agrees with every
\* field the receiver had set.
C25_Compatible(i) ==
    /\ args[1][i].Name = args[3].name
    /\ args[3].concentration.nan \/ args[1][i].Concentration = args[3].concentration
    /\ args[3].plate = "" \/ args[1][i].Plate = args[3].plate
    /\ args[3].well = "" \/ args[1][i].Well = args[3].well

\* C25: Component.with_reference passes the component through when no row
\* has its name, takes concentration, plate and well from the first
\* compatible row when there is one, and raises only when rows of its name
\* exist and none is compatible.
C25_ThreeOutcomes ==
    (pc = "with_reference" /\ args[3].class = "Component")
        => /\ (\A i \in 1..Len(args[1]) : args[1][i].Name # args[3].name)
                => result = Returned(args[3])
           /\ \A i \in 1..Len(args[1]) :
                (C25_Compatible(i) /\ \A j \in 1..(i - 1) : ~C25_Compatible(j))
                    => result = Returned(
                            LocatedComponent(args[3].name, args[1][i].Concentration,
                                             args[1][i].Plate, args[1][i].Well))
           /\ result.raised
                <=> /\ \E i \in 1..Len(args[1]) : args[1][i].Name = args[3].name
                    /\ \A i \in 1..Len(args[1]) : ~C25_Compatible(i)

\* C25 happens: a component on plate P2 took the second row of its name,
\* the first being on another plate.
C25_Witness ==
    /\ pc = "with_reference"
    /\ args[3].class = "Component"
    /\ Len(args[1]) = 2
    /\ ~C25_Compatible(1)
    /\ args[1][1].Name = args[3].name
    /\ C25_Compatible(2)
    /\ result = Returned(LocatedComponent(args[3].name, args[1][2].Concentration,
                                          args[1][2].Plate, args[1][2].Well))

\* C29: with_reference(reference, inplace=False) leaves the receiver, a
\* Component or a Strand, as it was when the call was made.
C29_ReceiverUntouched ==
    (pc = "with_reference" /\ ~args[2]) => mix = args[3]

(***************************************************************************)
(* The bookkeeping walk _update_volumes.  The dictionaries are functions   *)
(* from names to volumes.  mix holds the dictionaries that are the default *)
(* values of the parameters consumed_volumes and made_volumes: they are    *)
(* created once, when the function is defined, and every call that does    *)
(* not supply its own works on them.                                       *)
(***************************************************************************)
EmptyDict == [k \in {} |-> ZERO_VOL]

\* d.get(k, default)
Get(d, k, default) == IF k \in DOMAIN d THEN d[k] ELSE default

\* d[k] = v
Put(d, k, v) == [x \in DOMAIN d \cup {k} |-> IF x = k THEN v ELSE d[x]]

\* The two dictionaries of a walk, and whether it has raised.
Accumulators(consumed_volumes, made_volumes) ==
    [consumed_volumes |-> consumed_volumes, made_volumes |-> made_volumes,
     raised |-> FALSE]

RECURSIVE update_volumes(_, _)
RECURSIVE DrawFrom(_, _, _, _)
\* for component, volume in zip(action.components, action.each_volumes(...))
DrawFrom(components, volumes, k, acc) ==
    IF acc.raised \/ k > Len(components) \/ k > Len(volumes) THEN acc
    ELSE DrawFrom(components, volumes, k + 1,
            update_volumes(components[k],
                [acc EXCEPT !.consumed_volumes =
                    Put(@, components[k].name,
                        QAdd(Get(@, components[k].name, ZERO_VOL), volumes[k]))]))

RECURSIVE WalkActions(_, _, _, _)
\* for action in self.actions
WalkActions(self, tot_vol, k, acc) ==
    IF acc.raised \/ k > Len(self.actions) THEN acc
    ELSE IF each_volumes_raises(self.actions[k], tot_vol, self.actions)
    THEN [acc EXCEPT !.raised = TRUE]
    ELSE WalkActions(self, tot_vol, k + 1,
            DrawFrom(self.actions[k].components,
                     each_volumes(self.actions[k], tot_vol, self.actions), 1, acc))

\* if self.buffer_volume.m > 0
WithBuffer(self, buf_vol, acc) ==
    IF acc.raised \/ ~QGt(buf_vol, ZERO_VOL) THEN acc
    ELSE [acc EXCEPT
            !.made_volumes = Put(@, self.buffer_name, Get(@, self.buffer_name, ZERO_VOL)),
            !.consumed_volumes =
                Put(@, self.buffer_name,
                    QAdd(Get(@, self.buffer_name, ZERO_VOL), buf_vol))]

\* Mix._update_volumes once the mix is known not to have been seen.
MixWalk(self, tot_vol, acc) ==
    WithBuffer(self, BufferVolumeAt(self, tot_vol),
        WalkActions(self, tot_vol, 1,
            [acc EXCEPT !.made_volumes = Put(@, self.name, tot_vol),
                        !.consumed_volumes = Put(@, self.name, ZERO_VOL)]))

\* AbstractComponent._update_volumes and Mix._update_volumes
update_volumes(self, acc) ==
    IF acc.raised \/ self.name \in DOMAIN acc.made_volumes THEN acc
    ELSE IF ~self.is_mix
    THEN [acc EXCEPT !.made_volumes = Put(@, self.name, ZERO_VOL)]
    ELSE IF total_volume_raises(self) THEN [acc EXCEPT !.raised = TRUE]
    ELSE MixWalk(self, total_volume(self), acc)

\* The class whose _update_volumes a call on self runs.
DefiningClass(self) == IF self.is_mix THEN "Mix" ELSE "AbstractComponent"

MixOuter ==
    Mix(<<FixedVolume(<<MixSmall, CompB>>, Qty(500, 1))>>, "outer", Qty(2000, 1),
        NoneConc, "Buffer")

MixTwice ==
    Mix(<<FixedVolume(<<MixSmall>>, Qty(500, 1)),
          FixedVolume(<<CompA, MixSmall>>, Qty(250, 1))>>,
        "twice", DNAN, NoneConc, "Buffer")

MixDeep ==
    Mix(<<FixedVolume(<<MixOuter, MixSmall>>, Qty(100, 1))>>, "deep", DNAN,
        NoneConc, "Water")

RootInputs == {CompA, MixSmall, MixDerived, MixOuter, MixTwice, MixDeep}

InitVolumes ==
    /\ mix = [c \in {"Mix", "AbstractComponent"} |-> Accumulators(EmptyDict, EmptyDict)]
    /\ pc = "init"
    /\ args = <<>>
    /\ result = Returned(<<>>)

\* root._update_volumes(): the call works on the default dictionaries.
UpdateVolumesDefault(root) ==
    /\ pc' = "update_volumes"
    /\ args' = <<root, "default">>
    /\ result' = IF update_volumes(root, mix[DefiningClass(root)]).raised THEN Raised
                 ELSE Returned(update_volumes(root, mix[DefiningClass(root)]))
    /\ mix' = [mix EXCEPT ![DefiningClass(root)] =
                    [update_volumes(root, @) EXCEPT !.raised = FALSE]]

\* root._update_volumes({}, {})
UpdateVolumesEmpty(root) ==
    /\ pc' = "update_volumes"
    /\ args' = <<root, "empty">>
    /\ result' = IF update_volumes(root, Accumulators(EmptyDict, EmptyDict)).raised
                 THEN Raised
                 ELSE Returned(update_volumes(root, Accumulators(EmptyDict, EmptyDict)))
    /\ UNCHANGED mix

NextVolumes ==
    \/ \E root \in RootInputs : UpdateVolumesDefault(root)
    \/ \E root \in RootInputs : UpdateVolumesEmpty(root)

VolumesSpec == InitVolumes /\ [][NextVolumes]_vars

(***************************************************************************)
(* Properties of the bookkeeping walk.                                     *)
(***************************************************************************)
\* C27: a call of _update_volumes made without supplying accumulators
\* starts from empty ones: it returns what the walk of that mix from empty
\* dictionaries gives, whatever calls were made before.
C27_PerCallAccumulators ==
    (pc = "update_volumes" /\ args[2] = "default" /\ ~result.raised)
        => result.value = update_volumes(args[1], Accumulators(EmptyDict, EmptyDict))

\* The mixes expanded by a walk from m: m and every mix nested in it.
RECURSIVE C28_Expanded(_)
C28_Expanded(m) ==
    {m} \cup UNION {C28_Expanded(m.actions[k].components[i]) :
                      <<k, i>> \in {p \in (1..Len(m.actions)) \X (1..3) :
                                      /\ p[2] <= Len(m.actions[p[1]].components)
                                      /\ m.actions[p[1]].components[p[2]].is_mix}}

\* The draws of mix m from the component of that name, one per place.
C28_Draws(m, name) ==
    {<<m.name, k, i>> : <<k, i>> \in
        {p \in (1..Len(m.actions)) \X (1..3) :
            /\ p[2] <= Len(m.actions[p[1]].components)
            /\ m.actions[p[1]].components[p[2]].name = name}}

RECURSIVE C28_SumDraws(_, _, _)
C28_SumDraws(mixes, draws, sum) ==
    IF draws = {} THEN sum
    ELSE LET d == CHOOSE x \in draws : TRUE
             m == CHOOSE x \in mixes : x.name = d[1]
         IN C28_SumDraws(mixes, draws \ {d},
                QAdd(sum, each_volumes(m.actions[d[2]], total_volume(m),
                                       m.actions)[d[3]]))

\* The volume drawn from the component of that name by every action of
\* every mix expanded in the walk from root.
C28_Drawn(root, name) ==
    C28_SumDraws(C28_Expanded(root),
                 UNION {C28_Draws(m, name) : m \in C28_Expanded(root)}, ZERO_VOL)

\* The names of the components drawn from in the walk from root.
C28_Reached(root) ==
    UNION {{m.actions[k].components[i].name :
              <<k, i>> \in {p \in (1..Len(m.actions)) \X (1..3) :
                              p[2] <= Len(m.actions[p[1]].components)}} :
           m \in C28_Expanded(root)}

\* C28: after a walk from a root mix with empty accumulators, the consumed
\* volume of every component reached, leaf or nested mix, is the sum of the
\* volumes drawn from it by every action of every mix expanded.
C28_ConsumedIsSumOfDraws ==
    (pc = "update_volumes" /\ args[2] = "empty" /\ args[1].is_mix /\ ~result.raised)
        => \A c \in C28_Reached(args[1]) :
              /\ c \in DOMAIN result.value.consumed_volumes
              /\ result.value.consumed_volumes[c] = C28_Drawn(args[1], c)

(***************************************************************************)
(* Mix lines with their locations, and plate_maps.                         *)
(***************************************************************************)
\* A component with a location; plate "" and well "" stand for none.
PlatedComponent(name, conc, plate, well) ==
    [plate |-> plate, well |-> well] @@ Component(name, conc)

\* AbstractComponent.plate and _well_list
PlateOf(c) == IF "plate" \in DOMAIN c THEN c.plate ELSE ""

WellListOf(c) == IF "well" \in DOMAIN c /\ c.well # "" THEN <<c.well>> ELSE <<>>

\* The plate and wells of the lines of an action that has one line for each
\* component (FixedVolume, FixedConcentration).
LinePlaces(a) ==
    [i \in 1..Len(a.components) |->
        [plate |-> PlateOf(a.components[i]), wells |-> WellListOf(a.components[i])]]

\* The MixLine with its plate and wells.
LocatedLine(line, place) ==
    [names |-> line.names, each_tx_vol |-> line.each_tx_vol,
     plate |-> place.plate, wells |-> place.wells]

LocatedMixlinesOn(lines, places) ==
    [k \in 1..Len(lines) |-> LocatedLine(lines[k], places[k])]

\* Mix.mixlines; the buffer line has no plate and no wells.
LocatedMixlinesAt(m, buffer_name, tot_vol) ==
    LocatedMixlinesOn(MixlinesAt(m, buffer_name, tot_vol),
        Flatten([i \in 1..Len(m.actions) |-> LinePlaces(m.actions[i])])
        \o (IF has_fixed_total_volume(m) THEN <<[plate |-> "", wells |-> <<>>]>>
            ELSE <<>>))

located_mixlines(m, buffer_name) == LocatedMixlinesAt(m, buffer_name, total_volume(m))

\* str.lower(), on the names and plates that occur.
Lower(str) ==
    CASE str = "Buffer" -> "buffer"
      [] str = "Tube" -> "tube"
      [] OTHER -> str

\* The lines plate_maps passes over.
SkippedLine(mixline) ==
    \/ Len(mixline.names) = 0
    \/ Len(mixline.names) = 1 /\ Lower(mixline.names[1]) = "buffer"
    \/ Lower(mixline.plate) = "tube"
    \/ mixline.plate = ""

\* well_to_strand_name of _plate_map_from_mixline: zip(names, wells)
WellToStrandName(mixline) ==
    [w \in {mixline.wells[i] : i \in (1..Len(mixline.names)) \cap (1..Len(mixline.wells))}
        |-> mixline.names[CHOOSE i \in 1..Len(mixline.wells) : mixline.wells[i] = w]]

PlateMap(plate_name, vol_each, well_to_strand_name) ==
    [plate_name |-> plate_name, vol_each |-> vol_each,
     well_to_strand_name |-> well_to_strand_name]

\* plate_maps_dict.get(key) when combine_plate_actions: the place in
\* plate_maps of the map of that (plate, volume), 0 for None.
ExistingPlate(plate_maps, mixline, combine_plate_actions) ==
    IF combine_plate_actions
       /\ \E i \in 1..Len(plate_maps) :
            /\ plate_maps[i].plate_name = mixline.plate
            /\ plate_maps[i].vol_each = mixline.each_tx_vol
    THEN CHOOSE i \in 1..Len(plate_maps) :
            /\ plate_maps[i].plate_name = mixline.plate
            /\ plate_maps[i].vol_each = mixline.each_tx_vol
    ELSE 0

\* Mutant: a new plate map is put in front of the others.
AppendPlateMap_in_front(plate_maps, plate_map) == <<plate_map>> \o plate_maps

\* plate_maps.append(plate_map)
AppendPlateMap(plate_maps, plate_map) == Append(plate_maps, plate_map)

\* _plate_map_from_mixline with an existing plate map raises when a well of
\* the line is in it already.
PlateMapRaises(existing_plate_map, mixline) ==
    DOMAIN WellToStrandName(mixline) \cap DOMAIN existing_plate_map.well_to_strand_name # {}

\* _plate_map_from_mixline with an existing plate map: the line's wells are
\* added to it.
UpdatedPlateMap(existing_plate_map, mixline) ==
    [existing_plate_map EXCEPT !.well_to_strand_name = WellToStrandName(mixline) @@ @]

\* One pass of the loop of plate_maps.
PlateMapsStep(acc, mixline, existing) ==
    IF SkippedLine(mixline) THEN acc
    ELSE IF existing = 0
    THEN [acc EXCEPT !.plate_maps =
            AppendPlateMap(@, PlateMap(mixline.plate, mixline.each_tx_vol,
                                       WellToStrandName(mixline)))]
    ELSE IF PlateMapRaises(acc.plate_maps[existing], mixline)
    THEN [acc EXCEPT !.raised = TRUE]
    ELSE [acc EXCEPT !.plate_maps[existing] = UpdatedPlateMap(@, mixline)]

RECURSIVE PlateMapsFrom(_, _, _, _)
PlateMapsFrom(mixlines_, k, combine_plate_actions, acc) ==
    IF acc.raised \/ k > Len(mixlines_) THEN acc
    ELSE PlateMapsFrom(mixlines_, k + 1, combine_plate_actions,
            PlateMapsStep(acc, mixlines_[k],
                IF SkippedLine(mixlines_[k]) THEN 0
                ELSE ExistingPlate(acc.plate_maps, mixlines_[k], combine_plate_actions)))

PlateMapsOn(mixlines_, combine_plate_actions) ==
    PlateMapsFrom(mixlines_, 1, combine_plate_actions,
                  [plate_maps |-> <<>>, raised |-> FALSE])

plate_maps_raises(m, validate_, combine_plate_actions) ==
    \/ mixlines_raises(m)
    \/ validate_ /\ validate_raises(m)
    \/ PlateMapsOn(located_mixlines(m, "Buffer"), combine_plate_actions).raised

plate_maps(m, combine_plate_actions) ==
    PlateMapsOn(located_mixlines(m, "Buffer"), combine_plate_actions).plate_maps

PlatedPool ==
    {PlatedComponent("a", Qty(100, 1), "P1", "A1"),
     PlatedComponent("b", Qty(200, 1), "P1", "B1"),
     PlatedComponent("c", Qty(100, 1), "P2", "A1"),
     PlatedComponent("t", Qty(100, 1), "Tube", ""),
     PlatedComponent("n", Qty(100, 1), "", "")}

PlatedActionInputs ==
    {FixedVolume(<<c>>, Qty(v, 1)) : c \in PlatedPool, v \in {1000, 2000}}
    \cup {FixedVolume(<<PlatedComponent("c", Qty(100, 1), "P2", "A1"),
                        PlatedComponent("a", Qty(100, 1), "P1", "A1")>>, Qty(1000, 1)),
          FixedConcentration(<<PlatedComponent("b", Qty(200, 1), "P1", "B1")>>, Qty(20, 1))}

PlatedActionLists == UNION {[1..n -> PlatedActionInputs] : n \in 1..MaxActions}

InitPlates ==
    /\ mix \in {Mix(as, "m", v, NoneConc, "Buffer") :
                  as \in PlatedActionLists, v \in {DNAN, Qty(10000, 1)}}
    /\ pc = "init"
    /\ args = <<>>
    /\ result = Returned(<<>>)

\* mix.mixlines(buffer_name=buffer_name)
Mixlines(buffer_name) ==
    /\ pc = "init"
    /\ pc' = "mixlines"
    /\ args' = <<buffer_name>>
    /\ result' = IF mixlines_raises(mix) THEN Raised
                 ELSE Returned(located_mixlines(mix, buffer_name))
    /\ UNCHANGED mix

\* mix.plate_maps(validate=validate_, combine_plate_actions=...)
PlateMaps(validate_, combine_plate_actions) ==
    /\ pc = "init"
    /\ pc' = "plate_maps"
    /\ args' = <<validate_, combine_plate_actions>>
    /\ result' = IF plate_maps_raises(mix, validate_, combine_plate_actions) THEN Raised
                 ELSE Returned(plate_maps(mix, combine_plate_actions))
    /\ UNCHANGED mix

NextPlates ==
    \/ \E buffer_name \in {"Buffer", "TE"} : Mixlines(buffer_name)
    \/ \E validate_ \in BOOLEAN, combine_plate_actions \in BOOLEAN :
          PlateMaps(validate_, combine_plate_actions)

PlateSpec == InitPlates /\ [][NextPlates]_vars

(***************************************************************************)
(* Properties of the order of lines and plate maps.                        *)
(***************************************************************************)
\* The number of lines before those of action k.
RECURSIVE C26_Offset(_)
C26_Offset(k) == IF k <= 1 THEN 0 ELSE C26_Offset(k - 1) + Len(mix.actions[k - 1].components)

\* The lines plate_maps makes maps from, by their place among the lines.
C26_Eligible(lines) == {k \in 1..Len(lines) : ~SkippedLine(lines[k])}

C26_SameKey(line, plate_map) ==
    line.plate = plate_map.plate_name /\ line.each_tx_vol = plate_map.vol_each

\* The place of the first line with the (plate, volume) of that map.
C26_First(lines, plate_map) ==
    CHOOSE k \in C26_Eligible(lines) :
        /\ C26_SameKey(lines[k], plate_map)
        /\ \A j \in C26_Eligible(lines) : C26_SameKey(lines[j], plate_map) => k <= j

\* C26: mixlines() returns the lines of the actions in the order of
\* Mix.actions, then the buffer line as last element exactly when the mix
\* has a fixed total volume; plate_maps() returns one plate map for each
\* (plate, volume) of those lines, in the order of first appearance.
C26_LineAndMapOrder ==
    /\ (pc = "mixlines" /\ ~result.raised)
        => /\ \A k \in 1..Len(mix.actions) : \A i \in 1..Len(mix.actions[k].components) :
                /\ C26_Offset(k) + i <= Len(result.value)
                /\ result.value[C26_Offset(k) + i].names
                     = <<mix.actions[k].components[i].name>>
           /\ Len(result.value) = C26_Offset(Len(mix.actions) + 1)
                                    + (IF mix.fixed_total_volume.nan THEN 0 ELSE 1)
           /\ ~mix.fixed_total_volume.nan
                => result.value[Len(result.value)].names = <<args[1]>>
    /\ (pc = "plate_maps" /\ ~result.raised /\ args[2])
        => /\ \A k \in C26_Eligible(located_mixlines(mix, "Buffer")) :
                \E i \in 1..Len(result.value) :
                    C26_SameKey(located_mixlines(mix, "Buffer")[k], result.value[i])
           /\ \A i \in 1..Len(result.value) :
                \E k \in C26_Eligible(located_mixlines(mix, "Buffer")) :
                    C26_SameKey(located_mixlines(mix, "Buffer")[k], result.value[i])
           /\ \A i, j \in 1..Len(result.value) :
                i < j => C26_First(located_mixlines(mix, "Buffer"), result.value[i])
                           < C26_First(located_mixlines(mix, "Buffer"), result.value[j])

\* C26 happens: three lines on plates, the third with the plate and volume
\* of the first, gave two plate maps, the first one holding both wells.
C26_Witness ==
    /\ pc = "plate_maps"
    /\ ~result.raised
    /\ args[2]
    /\ ~mix.fixed_total_volume.nan
    /\ Len(result.value) = 2
    /\ result.value[1].plate_name = "P2"
    /\ result.value[2].plate_name = "P1"
    /\ DOMAIN result.value[2].well_to_strand_name = {"A1", "B1"}

====
